---------------------------- MODULE Spec2Model ----------------------------
(***************************************************************************)
(* Topic conversion and identity mapping of raintreeinc/knowledgebase:     *)
(* the title -> slug mapper (CreateMapping), the slug function (Slugify),  *)
(* the HTML rule table (NewHTMLRules), the streaming tag rewriter that the *)
(* rule table drives, and the page conversion (PageConversion.Convert)     *)
(* with its link resolver (ResolveLinkInfo, ToSlug, InlineImage).          *)
(*                                                                         *)
(* Strings are sequences of one-character strings, so that Slugify and     *)
(* titelize are computed character by character as the Go code does.       *)
(***************************************************************************)
EXTENDS Integers, Sequences, FiniteSets, TLC

VARIABLES
    \* ---- CreateMapping (src/unnamed/part_000) ----
    topics,     \* index.Topics: Filename -> [Title, ShortTitle] (mutated in place)
    byslug,     \* byslug: slug -> Filename of the topic
    bytopic,    \* bytopic: Filename of the topic -> slug
    errors,     \* the []error being built
    pc,         \* position in CreateMapping: "assign", "promote", "done"
    todo,       \* topics the first range loop has not produced yet
    pending,    \* byslug keys the second range loop has to produce
    optional,   \* byslug keys created during the second loop (may be produced)
    order,      \* history: the order in which the first loop produced the topics
    visits,     \* history: what the second loop saw at each topic it produced
    corpus,     \* history: index.Topics as it was when the current call began
    run,        \* number of the current CreateMapping call on this index
    last,       \* history: what the previous call returned and how it iterated
    \* ---- streaming rewriter ----
    rules,      \* the rule table of the conversion
    consumed,   \* the tokens read from the decoder so far
    stack,      \* the open elements, innermost last
    output,     \* the tokens written to the encoder, each with its origin
    called,     \* history: the callback invocations (index of the start token)
    rwpc,       \* "run", "ok" (finished), "fatal"
    \* ---- PageConversion.Convert (src/module/dita/convert.go) ----
    conversions,\* the PageConversion of each worker and what its Convert returned
    contexts,   \* the ditaconvert.Context objects, by identity
    \* ---- calls of the string functions ----
    str,        \* the string the next call is given
    calls,      \* history: the calls made, with argument and result
    \* ---- Mapping.TopicsSorted (src/unnamed/part_000) ----
    sorted,     \* whether TopicsSorted has been called, and what it returned
    \* ---- Pages (src/kb/pgdb/pages.go) ----
    pages,      \* the Pages table: Slug -> the row with that Slug
    journal,    \* the PageJournal table, in insertion order
    procs,      \* the callers of Pages: the call each is in and its locals
    oplog       \* history: the calls that returned, with what they changed

rwvars  == <<rules, consumed, stack, output, called, rwpc>>
cvvars  == <<conversions, contexts>>
txvars  == <<str, calls>>
tsvars  == <<sorted>>
pgvars  == <<pages, journal, procs, oplog>>
vars    == <<topics, byslug, bytopic, errors, pc, todo, pending, optional,
             order, visits, corpus, run, last,
             rules, consumed, stack, output, called, rwpc,
             conversions, contexts, str, calls, sorted,
             pages, journal, procs, oplog>>

-----------------------------------------------------------------------------
(* Characters *)

LowerLetters ==
    {"a","b","c","d","e","f","g","h","i","j","k","l","m",
     "n","o","p","q","r","s","t","u","v","w","x","y","z"}

UpperLetters == {"A","B","C"}

Digits == {"0","1","2"}

\* unicode.ToLower on the letters of the model
ToLower(r) ==
    CASE r = "A" -> "a"
      [] r = "B" -> "b"
      [] r = "C" -> "c"
      [] OTHER   -> r

\* unicode.IsNumber(r) || unicode.IsLetter(r)
IsAlnum(r) == r \in LowerLetters \cup UpperLetters \cup Digits

\* the runename table, restricted to the symbols of the model
\* ("~" has no entry)
HasRuneName(r) == r \in {"&", "+", "^", "!", ",", ".", "/", "=", "_"}

\* mutant of RuneName: the name of '&' is written with a capital
RuneNameCapital(r) ==
    CASE r = "&" -> <<"A","m","p">>
      [] r = "^" -> <<"h","a","t">>
      [] r = "/" -> <<"s","o","l">>
      [] OTHER   -> <<>>

RuneName(r) ==
    CASE r = "&" -> <<"a","m","p">>
      [] r = "+" -> <<"p","l","u","s">>
      [] r = "^" -> <<"h","a","t">>
      [] r = "!" -> <<"e","x","c","l">>
      [] r = "," -> <<"c","o","m","m","a">>
      [] r = "." -> <<"p","e","r","i","o","d">>
      [] r = "/" -> <<"s","o","l">>
      [] r = "=" -> <<"e","q","u","a","l","s">>
      [] r = "_" -> <<"l","o","w","b","a","r">>
      [] OTHER   -> <<>>

-----------------------------------------------------------------------------
(* Slugify, src/kb/slug.go *)

RECURSIVE SlugifyFrom(_, _, _, _, _)
SlugifyFrom(s, i, slug, cutdash, emitdash) ==
    IF i > Len(s) THEN slug
    ELSE LET r == s[i] IN
         IF IsAlnum(r)
         THEN SlugifyFrom(s, i + 1,
                  (IF emitdash /\ ~cutdash THEN Append(slug, "-") ELSE slug)
                      \o <<ToLower(r)>>,
                  FALSE, FALSE)
         ELSE IF r \in {"/", "="}
         THEN SlugifyFrom(s, i + 1, Append(slug, r), TRUE, FALSE)
         ELSE IF r \in {"-", ",", ".", " ", "_"}
         THEN SlugifyFrom(s, i + 1, slug, cutdash, TRUE)
         ELSE IF HasRuneName(r)
         THEN SlugifyFrom(s, i + 1,
                  (IF ~cutdash THEN Append(slug, "-") ELSE slug) \o RuneName(r),
                  FALSE, TRUE)
         ELSE SlugifyFrom(s, i + 1, slug, cutdash, TRUE)

Slugify(s) ==
    LET slug == SlugifyFrom(s, 1, <<>>, TRUE, FALSE)
    IN  IF Len(slug) = 0 THEN <<"-">> ELSE slug

-----------------------------------------------------------------------------
(* titelize, src/unnamed/part_000 *)

At(s, i) == IF i >= 1 /\ i <= Len(s) THEN s[i] ELSE ""

\* rxOr.ReplaceAllString(title, " or "), rxOr = ` ?/ ?`
RECURSIVE ReplaceOr(_, _)
ReplaceOr(s, i) ==
    IF i > Len(s) THEN <<>>
    ELSE IF s[i] = " " /\ At(s, i + 1) = "/"
    THEN <<" ","o","r"," ">>
             \o ReplaceOr(s, IF At(s, i + 2) = " " THEN i + 3 ELSE i + 2)
    ELSE IF s[i] = "/"
    THEN <<" ","o","r"," ">>
             \o ReplaceOr(s, IF At(s, i + 1) = " " THEN i + 2 ELSE i + 1)
    ELSE <<s[i]>> \o ReplaceOr(s, i + 1)

\* rxAnd.ReplaceAllString(title, " and "), rxAnd = `(?:[^\^]) ?& ?`:
\* the match takes the character in front of the '&' with it
RECURSIVE ReplaceAnd(_, _)
ReplaceAnd(s, i) ==
    IF i > Len(s) THEN <<>>
    ELSE IF s[i] # "^" /\ At(s, i + 1) = " " /\ At(s, i + 2) = "&"
    THEN <<" ","a","n","d"," ">>
             \o ReplaceAnd(s, IF At(s, i + 3) = " " THEN i + 4 ELSE i + 3)
    ELSE IF s[i] # "^" /\ At(s, i + 1) = "&"
    THEN <<" ","a","n","d"," ">>
             \o ReplaceAnd(s, IF At(s, i + 2) = " " THEN i + 3 ELSE i + 2)
    ELSE <<s[i]>> \o ReplaceAnd(s, i + 1)

titelize(title) == ReplaceAnd(ReplaceOr(title, 1), 1)

-----------------------------------------------------------------------------
(* Go maps *)

EmptyMap == [k \in {} |-> k]

Put(m, k, v) == [x \in DOMAIN m \cup {k} |-> IF x = k THEN v ELSE m[x]]

Del(m, k) == [x \in DOMAIN m \ {k} |-> m[x]]

\* the orders in which a range over a map with keys S can produce them
Orders(S) ==
    {seq \in [1..Cardinality(S) -> S] :
        \A i, j \in 1..Cardinality(S) : seq[i] = seq[j] => i = j}

Range(m) == {m[k] : k \in DOMAIN m}

-----------------------------------------------------------------------------
(* The corpus: ditaindex.Index.Topics *)

\* the largest number of topics of a corpus
MaxTopics == 3

\* the largest number of CreateMapping calls on one index
MaxRuns == 2

NoFile == "-"

\* the topics a corpus is drawn from, by Filename
TopicPool ==
    [t1 |-> [Title |-> <<"a"," ","b">>,         ShortTitle |-> <<"a">>],
     t2 |-> [Title |-> <<"a"," ","b"," ","c">>, ShortTitle |-> <<"a","-","b">>],
     t3 |-> [Title |-> <<"a","/","b">>,         ShortTitle |-> <<>>],
     t4 |-> [Title |-> <<"a"," ","/"," ","b">>, ShortTitle |-> <<"a">>],
     t5 |-> [Title |-> <<>>,                    ShortTitle |-> <<"a">>],
     t6 |-> [Title |-> <<"-">>,                 ShortTitle |-> <<"a"," ","b">>],
     t7 |-> [Title |-> <<"A"," ","B">>,         ShortTitle |-> <<>>]]

Corpora ==
    {[f \in F |-> TopicPool[f]] :
        F \in {G \in SUBSET DOMAIN TopicPool : Cardinality(G) <= MaxTopics}}

-----------------------------------------------------------------------------
(* CreateMapping, src/unnamed/part_000 *)

\* mutant of PrimaryOutcome: the clash check is missing, the last topic wins
PrimaryOutcomeLastWins(bs, title, slug) ==
    IF title = <<>> THEN "missing" ELSE "register"

\* the three ways an iteration of the first loop ends
PrimaryOutcome(bs, title, slug) ==
    IF slug \in DOMAIN bs THEN "clash"
    ELSE IF title = <<>> THEN "missing"
    ELSE "register"

ClashError(title, file, other) ==
    [kind |-> "clashing title", title |-> title, file |-> file, other |-> other]

MissingError(file) ==
    [kind |-> "title missing", title |-> <<>>, file |-> file, other |-> NoFile]

\* mutant of AssignErrors: a missing title is skipped silently
AssignErrorsNoMissing(errs, outcome, bs, title, slug, file) ==
    CASE outcome = "clash" -> Append(errs, ClashError(title, file, bs[slug]))
      [] OTHER             -> errs

\* errors after an iteration of the first loop
AssignErrors(errs, outcome, bs, title, slug, file) ==
    CASE outcome = "clash"   -> Append(errs, ClashError(title, file, bs[slug]))
      [] outcome = "missing" -> Append(errs, MissingError(file))
      [] OTHER               -> errs

\* mutant of SkipsPromotion: a taken identifier does not stop the promotion
SkipsPromotionIgnoresTaken(bs, topic) ==
    \/ topic.ShortTitle = <<>>
    \/ Len(topic.Title) <= Len(topic.ShortTitle)

\* the second loop's two `continue` conditions
SkipsPromotion(bs, topic) ==
    \/ topic.ShortTitle = <<>>
    \/ Len(topic.Title) <= Len(topic.ShortTitle)
    \/ Slugify(topic.ShortTitle) \in DOMAIN bs

\* mutant of PromotedTopic: the ShortTitle is not cleared
PromotedTopicKeepShort(topic) ==
    [Title |-> topic.ShortTitle, ShortTitle |-> topic.ShortTitle]

PromotedTopic(topic) == [Title |-> topic.ShortTitle, ShortTitle |-> <<>>]

\* mutant of PromoteBySlug: the old entry is not deleted
PromoteBySlugKeepOld(bs, prev, slug, file) == Put(bs, slug, file)

PromoteBySlug(bs, prev, slug, file) == Put(Del(bs, prev), slug, file)

NoResult == [byslug |-> EmptyMap, bytopic |-> EmptyMap, order |-> <<>>]

MapInit ==
    /\ topics \in Corpora
    /\ corpus = topics
    /\ byslug = EmptyMap
    /\ bytopic = EmptyMap
    /\ errors = <<>>
    /\ pc = "assign"
    /\ todo = DOMAIN topics
    /\ pending = {}
    /\ optional = {}
    /\ order = <<>>
    /\ visits = <<>>
    /\ run = 1
    /\ last = NoResult

\* one iteration of `for _, topic := range topics`
AssignVisit(f) ==
    /\ pc = "assign"
    /\ f \in todo
    /\ LET title   == titelize(topics[f].Title)
           short   == titelize(topics[f].ShortTitle)
           slug    == Slugify(title)
           outcome == PrimaryOutcome(byslug, title, slug)
       IN  /\ topics' = [topics EXCEPT ![f] = [Title |-> title, ShortTitle |-> short]]
           /\ errors' = AssignErrors(errors, outcome, byslug, title, slug, f)
           /\ byslug' = IF outcome = "register" THEN Put(byslug, slug, f) ELSE byslug
           /\ bytopic' = IF outcome = "register" THEN Put(bytopic, f, slug) ELSE bytopic
    /\ todo' = todo \ {f}
    /\ order' = Append(order, f)
    /\ UNCHANGED <<pc, pending, optional, visits, corpus, run, last>>
    /\ UNCHANGED <<rwvars, cvvars, txvars, tsvars, pgvars>>

\* the first loop ends, `for prev, topic := range byslug` begins
AssignDone ==
    /\ pc = "assign"
    /\ todo = {}
    /\ pc' = "promote"
    /\ pending' = DOMAIN byslug
    /\ optional' = {}
    /\ UNCHANGED <<topics, byslug, bytopic, errors, todo, order, visits, corpus,
                   run, last>>
    /\ UNCHANGED <<rwvars, cvvars, txvars, tsvars, pgvars>>

\* one iteration of `for prev, topic := range byslug`: the range produces
\* every entry that was there when it began, and may or may not produce an
\* entry created while it runs
PromoteVisit(prev) ==
    /\ pc = "promote"
    /\ prev \in (pending \cup optional) \cap DOMAIN byslug
    /\ LET f     == byslug[prev]
           topic == topics[f]
           slug  == Slugify(topic.ShortTitle)
           skip  == SkipsPromotion(byslug, topic)
       IN  /\ visits' = Append(visits,
                  [file |-> f, prev |-> prev, title |-> topic.Title,
                   short |-> topic.ShortTitle,
                   taken |-> Slugify(topic.ShortTitle) \in DOMAIN byslug])
           /\ IF skip
              THEN /\ UNCHANGED <<topics, byslug, bytopic>>
                   /\ optional' = optional \ {prev}
              ELSE /\ topics' = [topics EXCEPT ![f] = PromotedTopic(topic)]
                   /\ byslug' = PromoteBySlug(byslug, prev, slug, f)
                   /\ bytopic' = Put(bytopic, f, slug)
                   /\ optional' = (optional \ {prev}) \cup {slug}
    /\ pending' = pending \ {prev}
    /\ UNCHANGED <<errors, pc, todo, order, corpus, run, last>>
    /\ UNCHANGED <<rwvars, cvvars, txvars, tsvars, pgvars>>

\* the second loop ends and the Mapping is returned
Return ==
    /\ pc = "promote"
    /\ pending = {}
    /\ pc' = "done"
    /\ optional' = {}
    /\ UNCHANGED <<topics, byslug, bytopic, errors, todo, pending, order, visits,
                   corpus, run, last>>
    /\ UNCHANGED <<rwvars, cvvars, txvars, tsvars, pgvars>>

\* the caller calls CreateMapping again on the same index
CallAgain ==
    /\ pc = "done"
    /\ run < MaxRuns
    /\ run' = run + 1
    /\ last' = [byslug |-> byslug, bytopic |-> bytopic, order |-> order]
    /\ corpus' = topics
    /\ byslug' = EmptyMap
    /\ bytopic' = EmptyMap
    /\ errors' = <<>>
    /\ pc' = "assign"
    /\ todo' = DOMAIN topics
    /\ pending' = {}
    /\ optional' = {}
    /\ order' = <<>>
    /\ visits' = <<>>
    /\ UNCHANGED topics
    /\ UNCHANGED <<rwvars, cvvars, txvars, tsvars, pgvars>>

\* the Filenames of the pool in the order of their bytes
Filenames == <<"t1", "t2", "t3", "t4", "t5", "t6", "t7">>

FilePos(f) == CHOOSE i \in 1..Len(Filenames) : Filenames[i] = f

\* mutant of Less: the comparison is turned round
LessDescending(f, g) == FilePos(f) > FilePos(g)

\* byfilename.Less: a[i].Filename < a[j].Filename
Less(f, g) == FilePos(f) < FilePos(g)

\* x put into the sorted r, in front of the first element that is not
\* less than x
RECURSIVE SortInsert(_, _)
SortInsert(x, r) ==
    IF r = <<>> THEN <<x>>
    ELSE IF Less(Head(r), x) THEN <<Head(r)>> \o SortInsert(x, Tail(r))
    ELSE <<x>> \o r

\* sort.Sort(byfilename(r))
RECURSIVE SortByFilename(_)
SortByFilename(r) ==
    IF r = <<>> THEN <<>>
    ELSE SortInsert(Head(r), SortByFilename(Tail(r)))

\* m.TopicsSorted() on the returned Mapping: the range over m.Topics
\* produces the topics in some order, and the slice is sorted
TopicsSorted ==
    /\ pc = "done"
    /\ ~sorted.called
    /\ \E seq \in Orders(DOMAIN topics) :
          sorted' = [called |-> TRUE, r |-> SortByFilename(seq)]
    /\ UNCHANGED <<topics, byslug, bytopic, errors, pc, todo, pending, optional,
                   order, visits, corpus, run, last>>
    /\ UNCHANGED <<rwvars, cvvars, txvars, pgvars>>

MapNext ==
    \/ \E f \in DOMAIN topics : AssignVisit(f)
    \/ AssignDone
    \/ \E prev \in DOMAIN byslug : PromoteVisit(prev)
    \/ Return

RerunNext ==
    \/ MapNext
    \/ CallAgain

-----------------------------------------------------------------------------
(* The rule table, src/unnamed/part_001, and the rule tables of the examples *)

\* mutant of HTMLTranslate: the entry "i": "em" is lost
HTMLTranslateNoEm ==
    ("xref" :> "a") @@ ("link" :> "a") @@ ("image" :> "img")
    @@ ("colspec" :> "colgroup") @@ ("row" :> "tr") @@ ("entry" :> "td")

HTMLTranslate ==
    ("xref" :> "a") @@ ("link" :> "a")
    @@ ("choices" :> "ul") @@ ("choice" :> "li") @@ ("steps-unordered" :> "ul")
    @@ ("steps" :> "ol") @@ ("step" :> "li")
    @@ ("i" :> "em") @@ ("lines" :> "pre")
    @@ ("codeblock" :> "code")
    @@ ("codeph" :> "span") @@ ("cmdname" :> "span") @@ ("cmd" :> "span")
    @@ ("secright" :> "span") @@ ("shortcut" :> "span") @@ ("wintitle" :> "span")
    @@ ("filepath" :> "span") @@ ("userinput" :> "span") @@ ("menucascade" :> "span")
    @@ ("synph" :> "span") @@ ("delim" :> "span") @@ ("sep" :> "span")
    @@ ("parmname" :> "span")
    @@ ("image" :> "img")
    @@ ("uicontrol" :> "span")
    @@ ("example" :> "div") @@ ("context" :> "div") @@ ("substeps" :> "div")
    @@ ("substep" :> "div") @@ ("result" :> "div") @@ ("stepresult" :> "div")
    @@ ("stepxmp" :> "div") @@ ("info" :> "div") @@ ("note" :> "div")
    @@ ("refsyn" :> "div") @@ ("bodydiv" :> "div") @@ ("fig" :> "div")
    @@ ("prereq" :> "div") @@ ("postreq" :> "div")
    @@ ("simpletable" :> "table") @@ ("sthead" :> "thead") @@ ("strow" :> "tr")
    @@ ("stentry" :> "td")
    @@ ("colspec" :> "colgroup")
    @@ ("row" :> "tr") @@ ("entry" :> "td")

\* mutant of HTMLRemove: colspec is not marked for removal
HTMLRemoveNoColspec == {"br", "draft-comment"}

HTMLRemove == {"br", "draft-comment", "colspec"}

\* mutant of HTMLUnwrap: tgroup is not marked for unwrapping
HTMLUnwrapNoTgroup == {"dlentry"}

HTMLUnwrap == {"dlentry", "tgroup"}

\* NewHTMLRules()
NewHTMLRules ==
    [Translate |-> HTMLTranslate, Remove |-> HTMLRemove, Unwrap |-> HTMLUnwrap,
     Callback |-> {}]

\* the rules of a page conversion: Convert registers ToSlug under "a"
\* (and InlineImage under "img")
ConvertRules == [NewHTMLRules EXCEPT !.Callback = {"a", "img"}]

\* the rule table of the rewriter example
ExampleRules ==
    [Translate |-> ("b" :> "strong"), Remove |-> {"x"}, Unwrap |-> {"y"},
     Callback |-> {}]

\* a rule table whose sub-maps overlap: x is in all three, y in two
OverlapRules ==
    [Translate |-> ("b" :> "strong") @@ ("x" :> "del") @@ ("y" :> "span"),
     Remove |-> {"x"}, Unwrap |-> {"x", "y"}, Callback |-> {}]

RuleTables == {ExampleRules, OverlapRules, ConvertRules}

-----------------------------------------------------------------------------
(* Tokens: encoding/xml's StartElement, EndElement and CharData *)

Attr(name, value) == [name |-> name, value |-> value]

StartTok(name, attrs) == [kind |-> "start", name |-> name, attrs |-> attrs]

EndTok(name) == [kind |-> "end", name |-> name, attrs |-> <<>>]

TextTok(text) == [kind |-> "text", name |-> text, attrs |-> <<>>]

\* the largest number of tokens of a free input stream
MaxTokens == 4

\* <a><x>drop-me</x><y><b>k</b></y></a>
ExampleDoc ==
    <<StartTok("a", <<>>), StartTok("x", <<>>), TextTok("drop-me"), EndTok("x"),
      StartTok("y", <<>>), StartTok("b", <<>>), TextTok("k"), EndTok("b"),
      EndTok("y"), EndTok("a")>>

\* <p><colspec><xref>k</xref></colspec><tgroup><i id="1">k</i></tgroup></p>
HTMLDoc ==
    <<StartTok("p", <<>>), StartTok("colspec", <<>>), StartTok("xref", <<>>),
      TextTok("k"), EndTok("xref"), EndTok("colspec"),
      StartTok("tgroup", <<>>), StartTok("i", <<Attr("id", <<"1">>)>>), TextTok("k"),
      EndTok("i"), EndTok("tgroup"), EndTok("p")>>

IsExampleTable(r) == r.Remove = {"x"}

\* the long input of a rule table
LongDoc(r) == IF IsExampleTable(r) THEN ExampleDoc ELSE HTMLDoc

\* the tag names of the input streams of a rule table
InputNames(r) ==
    IF IsExampleTable(r) THEN {"a", "b", "x", "y"}
    ELSE {"p", "i", "xref", "colspec", "tgroup"}

\* the start tags of the input streams of a rule table
InputStarts(r) ==
    {StartTok(n, <<>>) : n \in InputNames(r)}
    \cup (IF IsExampleTable(r)
          THEN {StartTok("b", <<Attr("id", <<"1">>)>>)}
          ELSE {StartTok("i", <<Attr("id", <<"1">>)>>),
                StartTok("xref", <<Attr("scope", <<"l","o","c","a","l">>),
                                   Attr("id", <<"1">>)>>)})

IsPrefix(s, t) == Len(s) <= Len(t) /\ s = SubSeq(t, 1, Len(s))

\* the decoder may return tok next: the stream stays within the bound, or
\* is the beginning of the long input
MayRead(tok) ==
    LET next == Append(consumed, tok)
    IN  IF Len(next) <= MaxTokens /\ tok # TextTok("drop-me") THEN TRUE
        ELSE IsPrefix(next, LongDoc(rules))

-----------------------------------------------------------------------------
(* Attribute primitives of the rewriter *)

\* getAttr: the value of the attribute, the empty string if absent
\* (attribute values are strings, sequences of characters)
getAttr(attrs, name) ==
    IF \E i \in 1..Len(attrs) : attrs[i].name = name
    THEN attrs[CHOOSE i \in 1..Len(attrs) :
                   /\ attrs[i].name = name
                   /\ \A j \in 1..(i - 1) : attrs[j].name # name].value
    ELSE <<>>

RECURSIVE WithoutAttr(_, _)
WithoutAttr(attrs, name) ==
    IF attrs = <<>> THEN <<>>
    ELSE IF Head(attrs).name = name THEN WithoutAttr(Tail(attrs), name)
    ELSE <<Head(attrs)>> \o WithoutAttr(Tail(attrs), name)

\* setAttr: setting to the empty string removes the attribute
setAttr(attrs, name, value) ==
    IF value = <<>> THEN WithoutAttr(attrs, name)
    ELSE IF \E i \in 1..Len(attrs) : attrs[i].name = name
    THEN [i \in 1..Len(attrs) |->
             IF attrs[i].name = name THEN Attr(name, value) ELSE attrs[i]]
    ELSE Append(attrs, Attr(name, value))

-----------------------------------------------------------------------------
(* Strings and slash-separated paths: package strings, package path *)

\* strings.HasPrefix
HasPrefix(s, prefix) == IsPrefix(prefix, s)

\* strings.ToLower
ToLowerStr(s) == [i \in 1..Len(s) |-> ToLower(s[i])]

\* strings.Index for a single character, counted from 1 (0 if absent)
RECURSIVE IndexFrom(_, _, _)
IndexFrom(s, c, i) ==
    IF i > Len(s) THEN 0
    ELSE IF s[i] = c THEN i
    ELSE IndexFrom(s, c, i + 1)

\* strings.LastIndex for a single character, counted from 1 (0 if absent)
RECURSIVE LastIndexFrom(_, _, _)
LastIndexFrom(s, c, i) ==
    IF i < 1 THEN 0
    ELSE IF s[i] = c THEN i
    ELSE LastIndexFrom(s, c, i - 1)

\* strings.Split(s, "/")
RECURSIVE SplitSlash(_)
SplitSlash(s) ==
    LET i == IndexFrom(s, "/", 1)
    IN  IF i = 0 THEN <<s>>
        ELSE <<SubSeq(s, 1, i - 1)>> \o SplitSlash(SubSeq(s, i + 1, Len(s)))

\* strings.Join(segs, "/")
RECURSIVE JoinSlash(_)
JoinSlash(segs) ==
    IF segs = <<>> THEN <<>>
    ELSE IF Len(segs) = 1 THEN segs[1]
    ELSE segs[1] \o <<"/">> \o JoinSlash(Tail(segs))

DotDot == <<".", ".">>

\* the elements of a cleaned path: empty elements and "." are dropped, ".."
\* takes the element in front of it away (at the root it is dropped, at the
\* start of a relative path it stays)
RECURSIVE CleanElems(_, _, _)
CleanElems(segs, rooted, acc) ==
    IF segs = <<>> THEN acc
    ELSE LET e == Head(segs)
         IN  IF e = <<>> \/ e = <<".">>
             THEN CleanElems(Tail(segs), rooted, acc)
             ELSE IF e = DotDot
             THEN IF acc # <<>> /\ acc[Len(acc)] # DotDot
                  THEN CleanElems(Tail(segs), rooted, SubSeq(acc, 1, Len(acc) - 1))
                  ELSE IF rooted THEN CleanElems(Tail(segs), rooted, acc)
                  ELSE CleanElems(Tail(segs), rooted, Append(acc, e))
             ELSE CleanElems(Tail(segs), rooted, Append(acc, e))

\* path.Clean
Clean(p) ==
    IF p = <<>> THEN <<".">>
    ELSE LET rooted == p[1] = "/"
             elems  == CleanElems(SplitSlash(p), rooted, <<>>)
         IN  IF rooted THEN <<"/">> \o JoinSlash(elems)
             ELSE IF elems = <<>> THEN <<".">>
             ELSE JoinSlash(elems)

\* path.Dir
Dir(p) == Clean(SubSeq(p, 1, LastIndexFrom(p, "/", Len(p))))

\* path.Join of two elements: empty elements are ignored
Join(a, b) ==
    IF a = <<>> /\ b = <<>> THEN <<>>
    ELSE IF a = <<>> THEN Clean(b)
    ELSE IF b = <<>> THEN Clean(a)
    ELSE Clean(a \o <<"/">> \o b)

\* path.Ext: the suffix beginning at the final dot of the final element
RECURSIVE ExtFrom(_, _)
ExtFrom(p, i) ==
    IF i < 1 THEN <<>>
    ELSE IF p[i] = "/" THEN <<>>
    ELSE IF p[i] = "." THEN SubSeq(p, i, Len(p))
    ELSE ExtFrom(p, i - 1)

Ext(p) == ExtFrom(p, Len(p))

\* p without its trailing slashes
RECURSIVE TrimSlashes(_)
TrimSlashes(p) ==
    IF p # <<>> /\ p[Len(p)] = "/" THEN TrimSlashes(SubSeq(p, 1, Len(p) - 1))
    ELSE p

\* path.Base
Base(p) ==
    IF p = <<>> THEN <<".">>
    ELSE LET q == TrimSlashes(p)
             r == SubSeq(q, LastIndexFrom(q, "/", Len(q)) + 1, Len(q))
         IN  IF r = <<>> THEN <<"/">> ELSE r

-----------------------------------------------------------------------------
(* The link resolver, src/module/dita/convert.go *)

\* ditaconvert.SplitLink: the path part and the selector after the '#'
SplitLink(link) ==
    LET i == IndexFrom(link, "#", 1)
    IN  IF i = 0 THEN [url |-> link, selector |-> <<>>]
        ELSE [url |-> SubSeq(link, 1, i - 1),
              selector |-> SubSeq(link, i + 1, Len(link))]

\* ditaconvert.CanonicalPath: the key of the Index for a file name
CanonicalPath(name) == ToLowerStr(Clean(name))

\* ditaconvert.ExtractTitle: the title of the element of raw whose id is
\* the selector; err when there is no such element or it has no title
ExtractTitle(raw, selector) ==
    LET I == {i \in 1..Len(raw) :
                 /\ raw[i].kind = "start"
                 /\ getAttr(raw[i].attrs, "id") = selector}
    IN  IF I = {} THEN [title |-> <<>>, err |-> "no element"]
        ELSE LET i == CHOOSE k \in I : \A j \in I : k <= j
             IN  IF /\ i + 2 <= Len(raw)
                    /\ raw[i + 1].kind = "start"
                    /\ raw[i + 1].name = "title"
                    /\ raw[i + 2].kind = "text"
                 THEN [title |-> raw[i + 2].name, err |-> "nil"]
                 ELSE [title |-> <<>>, err |-> "no title"]

\* Context.InlinedImageURL: the servable URL of a media reference
InlinedImageURL(href) == <<"d","a","t","a",":">> \o href

\* what ResolveLinkInfo returns, with the Context's diagnostics afterwards
LinkInfo(href, title, synopsis, internal, errs) ==
    [href |-> href, title |-> title, synopsis |-> synopsis,
     internal |-> internal, errors |-> errs]

\* mutant of IsAbsolute: only http: is recognised
IsAbsoluteHttpOnly(url) == HasPrefix(url, <<"h","t","t","p",":">>)

\* strings.HasPrefix(url, "http:") || strings.HasPrefix(url, "https:")
IsAbsolute(url) ==
    \/ HasPrefix(url, <<"h","t","t","p",":">>)
    \/ HasPrefix(url, <<"h","t","t","p","s",":">>)

NotFoundError(name, url, selector) ==
    [kind |-> "did not find topic", name |-> name, url |-> url,
     selector |-> selector]

ExtractError(name, url, selector, err) ==
    [kind |-> "unable to extract title", name |-> name, url |-> url,
     selector |-> selector, err |-> err]

\* mutant of TopicNotFound: the miss is not recorded
TopicNotFoundSilent(errs, name, url, selector) ==
    LinkInfo(<<>>, <<>>, <<>>, FALSE, errs)

\* the topic is not in the Index: one diagnostic, nothing resolved
TopicNotFound(errs, name, url, selector) ==
    LinkInfo(<<>>, <<>>, <<>>, FALSE,
             Append(errs, NotFoundError(name, url, selector)))

\* mutant of InternalHref: the selector is dropped
InternalHrefNoSelector(slug, selector) == slug

\* the href of a topic that has an identifier
InternalHref(slug, selector) ==
    IF selector # <<>> THEN slug \o <<"#">> \o selector ELSE slug

\* mutant of TopicFound: the topic's own Title is used only without selector
TopicFoundTitleWithoutSelector(errs, key, name, url, selector, extracted) ==
    LET fallback == /\ extracted.title = <<>>
                    /\ topics[key].Original
                    /\ selector = <<>>
    IN  LinkInfo(IF key \in DOMAIN bytopic
                 THEN InternalHref(bytopic[key], selector) ELSE <<>>,
                 IF fallback THEN topics[key].Title ELSE extracted.title,
                 IF fallback THEN topics[key].ShortDesc ELSE <<>>,
                 key \in DOMAIN bytopic,
                 IF extracted.err # "nil"
                 THEN Append(errs, ExtractError(name, url, selector, extracted.err))
                 ELSE errs)

\* ResolveLinkInfo from the lookup in ByTopic on: the topic at key is in
\* the Index and extracted is what ExtractTitle gave for the selector
TopicFound(errs, key, name, url, selector, extracted) ==
    LET fallback == extracted.title = <<>> /\ topics[key].Original
    IN  LinkInfo(IF key \in DOMAIN bytopic
                 THEN InternalHref(bytopic[key], selector) ELSE <<>>,
                 IF fallback THEN topics[key].Title ELSE extracted.title,
                 IF fallback /\ selector = <<>> THEN topics[key].ShortDesc
                 ELSE <<>>,
                 key \in DOMAIN bytopic,
                 IF extracted.err # "nil"
                 THEN Append(errs, ExtractError(name, url, selector, extracted.err))
                 ELSE errs)

\* mutant of LookupTopic: a failed title extraction ends the resolution
LookupTopicExtractAborts(errs, key, name, url, selector) ==
    IF key \notin DOMAIN topics THEN TopicNotFound(errs, name, url, selector)
    ELSE IF selector # <<>> /\ ExtractTitle(topics[key].Raw, selector).err # "nil"
    THEN LinkInfo(<<>>, <<>>, <<>>, FALSE,
                  Append(errs, ExtractError(name, url, selector,
                             ExtractTitle(topics[key].Raw, selector).err)))
    ELSE TopicFound(errs, key, name, url, selector,
                    IF selector # <<>>
                    THEN ExtractTitle(topics[key].Raw, selector)
                    ELSE [title |-> <<>>, err |-> "nil"])

\* ResolveLinkInfo from the lookup in the Index on: name is the joined path
LookupTopic(errs, key, name, url, selector) ==
    IF key \notin DOMAIN topics THEN TopicNotFound(errs, name, url, selector)
    ELSE TopicFound(errs, key, name, url, selector,
                    IF selector # <<>>
                    THEN ExtractTitle(topics[key].Raw, selector)
                    ELSE [title |-> <<>>, err |-> "nil"])

\* mutant of ResolveSplit: an empty path part is looked up as the topic
\* being decoded
ResolveSplitLooksUpSelf(errs, decodingPath, url, selector) ==
    IF url = <<>>
    THEN LookupTopic(errs, CanonicalPath(decodingPath), decodingPath, url,
                     selector)
    ELSE LookupTopic(errs,
                     CanonicalPath(Join(Dir(decodingPath), url)),
                     Join(Dir(decodingPath), url), url, selector)

\* ResolveLinkInfo after SplitLink
ResolveSplit(errs, decodingPath, url, selector) ==
    IF url = <<>> THEN LinkInfo(<<"#">> \o selector, <<>>, <<>>, TRUE, errs)
    ELSE LookupTopic(errs,
                     CanonicalPath(Join(Dir(decodingPath), url)),
                     Join(Dir(decodingPath), url), url, selector)

\* ResolveLinkInfo, for a Context with diagnostics errs that is decoding
\* decodingPath; the Index is topics, the Mapping's ByTopic is bytopic
ResolveLinkInfo(errs, decodingPath, link) ==
    IF IsAbsolute(link) THEN LinkInfo(link, <<>>, <<>>, FALSE, errs)
    ELSE ResolveSplit(errs, decodingPath,
                      SplitLink(link).url, SplitLink(link).selector)

\* the extensions ToSlug offers as downloads
DownloadExts ==
    {<<".","p","d","f">>, <<".","d","o","c">>, <<".","x","m","l">>,
     <<".","r","t","f">>, <<".","z","i","p">>, <<".","e","x","e">>}

Blank == <<"_","b","l","a","n","k">>

\* mutant of FormatPolicy: the extension is compared as it is written
FormatPolicyCaseSensitive(attrs, href) ==
    IF getAttr(attrs, "format") # <<>> /\ href # <<>>
    THEN LET cleared == setAttr(attrs, "format", <<>>)
         IN  IF Ext(href) \in DownloadExts
             THEN setAttr(cleared, "download", Base(href))
             ELSE setAttr(cleared, "target", Blank)
    ELSE attrs

\* the last block of ToSlug: format gives way to download or target
FormatPolicy(attrs, href) ==
    IF getAttr(attrs, "format") # <<>> /\ href # <<>>
    THEN LET cleared == setAttr(attrs, "format", <<>>)
             ext     == ToLowerStr(Ext(href))
         IN  IF ext \in DownloadExts
             THEN setAttr(cleared, "download", Base(href))
             ELSE setAttr(cleared, "target", Blank)
    ELSE attrs

\* mutant of WithHref: an href that does not resolve is left as it was
WithHrefKeptWhenUnresolved(attrs, given, href) ==
    IF given # <<>> /\ href # <<>> THEN setAttr(attrs, "href", href) ELSE attrs

\* setAttr(&start, "href", href), done when the tag had an href
WithHref(attrs, given, href) ==
    IF given # <<>> THEN setAttr(attrs, "href", href) ELSE attrs

\* the description becomes the title when the tag has none
WithTitle(attrs, desc) ==
    IF desc # <<>> /\ getAttr(attrs, "title") = <<>>
    THEN setAttr(attrs, "title", desc) ELSE attrs

\* the attributes ToSlug emits for a tag whose href was given and whose
\* link resolved to info
LinkAttrs(attrs, given, info) ==
    FormatPolicy(
        setAttr(WithTitle(WithHref(attrs, given, info.href), info.synopsis),
                "scope", <<>>),
        info.href)

\* PageConversion.ToSlug up to its call of EmitWithChildren: the start tag
\* it emits and the Context's diagnostics afterwards
ToSlugWith(start, info) ==
    [start  |-> [start EXCEPT !.attrs =
                    LinkAttrs(@, getAttr(start.attrs, "href"), info)],
     errors |-> info.errors,
     info   |-> info]

ToSlug(errs, decodingPath, start) ==
    ToSlugWith(start,
               IF getAttr(start.attrs, "href") # <<>>
               THEN ResolveLinkInfo(errs, decodingPath,
                                    getAttr(start.attrs, "href"))
               ELSE LinkInfo(<<>>, <<>>, <<>>, FALSE, errs))

Break == <<"b","r","e","a","k">>

\* mutant of Wraps: every placement gets the paragraph
WrapsAnyPlacement(placement) == placement # <<>>

\* InlineImage writes the synthetic paragraph
Wraps(placement) == placement = Break

\* the <p class="image"> of InlineImage
ImageParagraph == StartTok("p", <<Attr("class", <<"i","m","a","g","e">>)>>)

\* the attributes InlineImage emits
ImageAttrs(attrs) ==
    setAttr(setAttr(setAttr(attrs, "src", InlinedImageURL(getAttr(attrs, "href"))),
                    "href", <<>>),
            "placement", <<>>)

\* PageConversion.InlineImage around its call of EmitWithChildren: what it
\* writes before, the start tag it emits, what it writes afterwards
InlineImage(start) ==
    [before |-> IF Wraps(getAttr(start.attrs, "placement"))
                THEN <<ImageParagraph>> ELSE <<>>,
     start  |-> [start EXCEPT !.attrs = ImageAttrs(@)],
     after  |-> IF Wraps(getAttr(start.attrs, "placement"))
                THEN <<EndTok("p")>> ELSE <<>>]

-----------------------------------------------------------------------------
(* The streaming rewriter *)

\* what becomes of an element, by its input name
Outcome(r, name) ==
    IF name \in r.Remove THEN "remove"
    ELSE IF name \in r.Unwrap THEN "unwrap"
    ELSE "emit"

\* the output name of an element
OutName(r, name) ==
    IF name \in DOMAIN r.Translate THEN r.Translate[name] ELSE name

HasCallback(r, out) == out \in r.Callback

\* the start tag the callback registered under out hands to EmitWithChildren
CallbackStart(out, start) ==
    CASE out = "a"   -> ToSlug(<<>>, <<>>, start).start
      [] out = "img" -> InlineImage(start).start

Frame(name, mode, out) == [name |-> name, mode |-> mode, out |-> out]

Top(st) == st[Len(st)]

Pop(st) == SubSeq(st, 1, Len(st) - 1)

Skipping == stack # <<>> /\ Top(stack).mode = "skip"

Written(tok, origin) == [tok |-> tok, origin |-> origin]

RewriteInit ==
    /\ rules \in RuleTables
    /\ consumed = <<>>
    /\ stack = <<>>
    /\ output = <<>>
    /\ called = <<>>
    /\ rwpc = "run"

\* the decoder returns a start tag
ReadStart(tok) ==
    /\ rwpc = "run"
    /\ MayRead(tok)
    /\ consumed' = Append(consumed, tok)
    /\ LET i    == Len(consumed) + 1
           what == IF Skipping THEN "remove" ELSE Outcome(rules, tok.name)
           out  == OutName(rules, tok.name)
           renamed == StartTok(out, tok.attrs)
       IN  CASE what = "remove" ->
                  /\ stack' = Append(stack, Frame(tok.name, "skip", out))
                  /\ UNCHANGED <<output, called>>
             [] what = "unwrap" ->
                  /\ stack' = Append(stack, Frame(tok.name, "unwrap", out))
                  /\ UNCHANGED <<output, called>>
             [] what = "emit" /\ HasCallback(rules, out) ->
                  /\ stack' = Append(stack, Frame(tok.name, "callback", out))
                  /\ called' = Append(called, i)
                  /\ output' = Append(output, Written(CallbackStart(out, renamed), i))
             [] what = "emit" /\ ~HasCallback(rules, out) ->
                  /\ stack' = Append(stack, Frame(tok.name, "emit", out))
                  /\ output' = Append(output, Written(renamed, i))
                  /\ UNCHANGED called
    /\ UNCHANGED <<rules, rwpc>>

\* the decoder returns the end tag of the innermost open element
ReadEnd ==
    /\ rwpc = "run"
    /\ stack # <<>>
    /\ MayRead(EndTok(Top(stack).name))
    /\ consumed' = Append(consumed, EndTok(Top(stack).name))
    /\ stack' = Pop(stack)
    /\ output' = IF Top(stack).mode \in {"emit", "callback"}
                 THEN Append(output,
                          Written(EndTok(Top(stack).out), Len(consumed) + 1))
                 ELSE output
    /\ UNCHANGED <<rules, called, rwpc>>

\* the decoder meets an end tag that does not match the open element: it
\* returns a syntax error, and the run ends with that error
ReadBadEnd(name) ==
    /\ rwpc = "run"
    /\ IF stack = <<>> THEN TRUE ELSE Top(stack).name # name
    /\ Len(consumed) < MaxTokens
    /\ consumed' = Append(consumed, EndTok(name))
    /\ rwpc' = "fatal"
    /\ UNCHANGED <<rules, stack, output, called>>

\* the decoder returns character data
ReadCharData(text) ==
    /\ rwpc = "run"
    /\ MayRead(TextTok(text))
    /\ consumed' = Append(consumed, TextTok(text))
    /\ output' = IF Skipping THEN output
                 ELSE Append(output, Written(TextTok(text), Len(consumed) + 1))
    /\ UNCHANGED <<rules, stack, called, rwpc>>

\* the decoder reaches the end of the input: the run is over, with an
\* error if an element is still open
ReadEOF ==
    /\ rwpc = "run"
    /\ rwpc' = IF stack = <<>> THEN "ok" ELSE "fatal"
    /\ UNCHANGED <<rules, consumed, stack, output, called>>

-----------------------------------------------------------------------------
(* The Index and Mapping of the page conversions *)

PathA == <<"a",".","x","m","l">>

PathB == <<"s","u","b","/","b",".","x","m","l">>

PathC == <<"s","u","b","/","c",".","x","m","l">>

PathD == <<"s","u","b","/","d",".","x","m","l">>

K == TextTok(<<"k">>)

Href(value) == Attr("href", value)

\* <section id="intro"><title>Intro</title></section>
DocA ==
    <<StartTok("section", <<Attr("id", <<"i","n","t","r","o">>)>>),
      StartTok("title", <<>>), TextTok(<<"I","n","t","r","o">>),
      EndTok("title"), EndTok("section")>>

\* <xref href="b.xml">k</xref>
DocC ==
    <<StartTok("xref", <<Href(<<"b",".","x","m","l">>)>>), K, EndTok("xref")>>

\* <xref href="../a.xml#intro">k</xref>
DocExample ==
    <<StartTok("xref",
          <<Href(<<".",".","/","a",".","x","m","l","#","i","n","t","r","o">>)>>),
      K, EndTok("xref")>>

\* <xref href="../A.xml" format="dita" scope="local">k</xref>
DocUpper ==
    <<StartTok("xref",
          <<Href(<<".",".","/","A",".","x","m","l">>),
            Attr("format", <<"d","i","t","a">>),
            Attr("scope", <<"l","o","c","a","l">>)>>),
      K, EndTok("xref")>>

\* <xref href="http://x/b.doC" format="doc" scope="external">k</xref>
DocDownload ==
    <<StartTok("xref",
          <<Href(<<"h","t","t","p",":","/","/","x","/","b",".","d","o","C">>),
            Attr("format", <<"d","o","c">>),
            Attr("scope", <<"e","x","t","e","r","n","a","l">>)>>),
      K, EndTok("xref")>>

\* <p><xref href="https://x/" format="html">k</xref></p>
DocHttps ==
    <<StartTok("p", <<>>),
      StartTok("xref",
          <<Href(<<"h","t","t","p","s",":","/","/","x","/">>),
            Attr("format", <<"h","t","m","l">>)>>),
      K, EndTok("xref"), EndTok("p")>>

\* <xref href="no.xml#s" format="dita">k</xref><xref href="c.xml">k</xref>
DocMissing ==
    <<StartTok("xref",
          <<Href(<<"n","o",".","x","m","l","#","s">>),
            Attr("format", <<"d","i","t","a">>)>>),
      K, EndTok("xref"),
      StartTok("xref", <<Href(<<"c",".","x","m","l">>)>>), K, EndTok("xref")>>

\* <xref href="no.xml">k</xref></p>
DocMissingThenBadEnd ==
    <<StartTok("xref", <<Href(<<"n","o",".","x","m","l">>)>>), K, EndTok("xref"),
      EndTok("p")>>

\* <image href="i.png" placement="break"><alt>k</alt></image>
DocImageBreak ==
    <<StartTok("image",
          <<Href(<<"i",".","p","n","g">>), Attr("placement", <<"b","r","e","a","k">>)>>),
      StartTok("alt", <<>>), K, EndTok("alt"), EndTok("image")>>

\* <image href="i.png" placement="inline" id="1"></image><image href="i.png"></image>
DocImageInline ==
    <<StartTok("image",
          <<Href(<<"i",".","p","n","g">>),
            Attr("placement", <<"i","n","l","i","n","e">>),
            Attr("id", <<"1">>)>>),
      EndTok("image"),
      StartTok("image", <<Href(<<"i",".","p","n","g">>)>>), EndTok("image")>>

\* <image href="i.png" placement="break"><alt></p>
DocImageBadEnd ==
    <<StartTok("image",
          <<Href(<<"i",".","p","n","g">>), Attr("placement", <<"b","r","e","a","k">>)>>),
      StartTok("alt", <<>>), EndTok("p")>>

\* <image placement="break"> and the input ends
DocImageEOF ==
    <<StartTok("image", <<Attr("placement", <<"b","r","e","a","k">>)>>)>>

\* <xref href="#top">k</xref><xref href="../a.xml#none">k</xref>
\* <xref href="c.xml#none">k</xref>
DocSelectors ==
    <<StartTok("xref", <<Href(<<"#","t","o","p">>)>>), K, EndTok("xref"),
      StartTok("xref",
          <<Href(<<".",".","/","a",".","x","m","l","#","n","o","n","e">>)>>),
      K, EndTok("xref"),
      StartTok("xref", <<Href(<<"c",".","x","m","l","#","n","o","n","e">>)>>),
      K, EndTok("xref")>>

\* <xref href="d.xml">k</xref><xref href="d.xml#intro" title="t">k</xref>
DocUnmapped ==
    <<StartTok("xref", <<Href(<<"d",".","x","m","l">>)>>), K, EndTok("xref"),
      StartTok("xref",
          <<Href(<<"d",".","x","m","l","#","i","n","t","r","o">>),
            Attr("title", <<"t">>)>>),
      K, EndTok("xref")>>

\* <tgroup><link href="c.xml" scope="peer">k</link></tgroup>
\* <a><img></img></a><colspec><a></a></colspec>
DocCallbacks ==
    <<StartTok("tgroup", <<>>),
      StartTok("link", <<Href(<<"c",".","x","m","l">>),
                         Attr("scope", <<"p","e","e","r">>)>>),
      K, EndTok("link"), EndTok("tgroup"),
      StartTok("a", <<>>), StartTok("img", <<>>), EndTok("img"), EndTok("a"),
      StartTok("colspec", <<>>), StartTok("a", <<>>), EndTok("a"),
      EndTok("colspec")>>

\* <draft-comment><xref href="no.xml"></xref></draft-comment>
DocRemoved ==
    <<StartTok("draft-comment", <<>>),
      StartTok("xref", <<Href(<<"n","o",".","x","m","l">>)>>), EndTok("xref"),
      EndTok("draft-comment")>>

\* the raw contents the topic sub/b.xml is given
LinkDocs ==
    {DocExample, DocUpper, DocDownload, DocHttps, DocMissing,
     DocMissingThenBadEnd, DocImageBreak, DocImageInline, DocImageBadEnd,
     DocImageEOF, DocSelectors, DocUnmapped, DocCallbacks, DocRemoved}

LinkTopic(title, raw, original, shortdesc) ==
    [Title |-> title, ShortTitle |-> <<>>, Raw |-> raw,
     Original |-> original, ShortDesc |-> shortdesc]

\* the Index: a.xml "alpha", sub/b.xml "beta", sub/c.xml "Beta", which has
\* not been parsed and clashes with sub/b.xml, and sub/d.xml "Alpha", which
\* has been parsed and clashes with a.xml
LinkIndex(raw) ==
    (PathA :> LinkTopic(<<"a","l","p","h","a">>, DocA, TRUE,
                        <<"f","i","r","s","t">>))
    @@ (PathB :> LinkTopic(<<"b","e","t","a">>, raw, TRUE, <<>>))
    @@ (PathC :> LinkTopic(<<"B","e","t","a">>, DocC, FALSE, <<>>))
    @@ (PathD :> LinkTopic(<<"A","l","p","h","a">>, DocA, TRUE,
                           <<"s","e","c","o","n","d">>))

\* the Mapping CreateMapping returns for the Index when it visits
\* sub/b.xml before sub/c.xml and a.xml before sub/d.xml
LinkByTopic(index) ==
    [f \in {PathA, PathB} |-> Slugify(titelize(index[f].Title))]

LinkBySlug(index) ==
    (LinkByTopic(index)[PathA] :> PathA) @@ (LinkByTopic(index)[PathB] :> PathB)

-----------------------------------------------------------------------------
(* PageConversion.Convert, src/module/dita/convert.go, and Context.Run *)

Workers == {"w1", "w2"}

\* ditaconvert.NewConversion(index, topic): a Context of its own
NewConversion(t) ==
    [state |-> "run", DecodingPath |-> t, toks |-> topics[t].Raw, pos |-> 1,
     stack |-> <<>>, Output |-> <<>>, Errors |-> <<>>, Rules |-> NewHTMLRules,
     err |-> "nil", Resolved |-> <<>>, Called |-> <<>>]

NoContext ==
    [state |-> "none", DecodingPath |-> <<>>, toks |-> <<>>, pos |-> 1,
     stack |-> <<>>, Output |-> <<>>, Errors |-> <<>>, Rules |-> NewHTMLRules,
     err |-> "nil", Resolved |-> <<>>, Called |-> <<>>]

\* the frame of an element a callback emits: after is what the callback
\* writes once EmitWithChildren has returned
CallbackFrame(name, out, after) ==
    [name |-> name, mode |-> "callback", out |-> out, after |-> after]

CtxSkipping(c) == c.stack # <<>> /\ Top(c.stack).mode = "skip"

WrittenAll(toks, origin) == [k \in 1..Len(toks) |-> Written(toks[k], origin)]

\* what the callbacks of the open elements write when EmitWithChildren
\* returns an error to them, innermost first
RECURSIVE Unwound(_, _)
Unwound(st, origin) ==
    IF st = <<>> THEN <<>>
    ELSE (IF Top(st).mode = "callback" THEN WrittenAll(Top(st).after, origin)
          ELSE <<>>) \o Unwound(Pop(st), origin)

\* the run ends with an error
Fail(c, err) ==
    [c EXCEPT !.state = "fatal", !.err = err,
              !.Output = @ \o Unwound(c.stack, c.pos)]

\* history: the call of ResolveLinkInfo ToSlug made for the start tag at
\* c.pos, with the diagnostics before it and what it returned
Resolution(resolved, c, start, info) ==
    IF getAttr(start.attrs, "href") = <<>> THEN resolved
    ELSE Append(resolved, [at |-> c.pos, url |-> getAttr(start.attrs, "href"),
                           before |-> c.Errors, info |-> info])

\* the callback registered under out is called with the renamed start tag
CallCustom(c, name, out, renamed) ==
    CASE out = "a" ->
             LET r == ToSlug(c.Errors, c.DecodingPath, renamed)
             IN  [c EXCEPT !.stack = Append(@, CallbackFrame(name, out, <<>>)),
                           !.Output = Append(@, Written(r.start, c.pos)),
                           !.Errors = r.errors,
                           !.Resolved = Resolution(@, c, renamed, r.info),
                           !.Called = Append(@, [at |-> c.pos, out |-> out]),
                           !.pos = @ + 1]
      [] out = "img" ->
             LET r == InlineImage(renamed)
             IN  [c EXCEPT !.stack = Append(@, CallbackFrame(name, out, r.after)),
                           !.Output = @ \o WrittenAll(r.before \o <<r.start>>, c.pos),
                           !.Called = Append(@, [at |-> c.pos, out |-> out]),
                           !.pos = @ + 1]

\* Context.Run reads a start tag
RunStart(c, tok) ==
    LET what    == IF CtxSkipping(c) THEN "remove" ELSE Outcome(c.Rules, tok.name)
        out     == OutName(c.Rules, tok.name)
        renamed == StartTok(out, tok.attrs)
    IN  CASE what = "remove" ->
                 [c EXCEPT !.stack = Append(@, Frame(tok.name, "skip", out)),
                           !.pos = @ + 1]
          [] what = "unwrap" ->
                 [c EXCEPT !.stack = Append(@, Frame(tok.name, "unwrap", out)),
                           !.pos = @ + 1]
          [] what = "emit" /\ HasCallback(c.Rules, out) ->
                 CallCustom(c, tok.name, out, renamed)
          [] what = "emit" /\ ~HasCallback(c.Rules, out) ->
                 [c EXCEPT !.stack = Append(@, Frame(tok.name, "emit", out)),
                           !.Output = Append(@, Written(renamed, c.pos)),
                           !.pos = @ + 1]

\* Context.Run reads an end tag
RunEnd(c, tok) ==
    IF c.stack = <<>> THEN Fail(c, "syntax error")
    ELSE IF Top(c.stack).name # tok.name THEN Fail(c, "syntax error")
    ELSE LET top == Top(c.stack)
         IN  [c EXCEPT
                 !.stack = Pop(@),
                 !.Output =
                     @ \o (IF top.mode \in {"emit", "callback"}
                           THEN <<Written(EndTok(top.out), c.pos)>> ELSE <<>>)
                       \o (IF top.mode = "callback"
                           THEN WrittenAll(top.after, c.pos) ELSE <<>>),
                 !.pos = @ + 1]

\* Context.Run reads character data
RunCharData(c, tok) ==
    [c EXCEPT !.Output = IF CtxSkipping(c) THEN @
                         ELSE Append(@, Written(tok, c.pos)),
              !.pos = @ + 1]

\* Context.Run reaches the end of the input
RunEOF(c) ==
    IF c.stack = <<>> THEN [c EXCEPT !.state = "ok"]
    ELSE Fail(c, "unexpected EOF")

\* Context.Run handles the next token of the topic
StepCtx(c) ==
    IF c.pos > Len(c.toks) THEN RunEOF(c)
    ELSE LET tok == c.toks[c.pos]
         IN  CASE tok.kind = "start" -> RunStart(c, tok)
               [] tok.kind = "end"   -> RunEnd(c, tok)
               [] tok.kind = "text"  -> RunCharData(c, tok)

\* Context.Run from c to its return
RECURSIVE RunAlone(_)
RunAlone(c) == IF c.state # "run" THEN c ELSE RunAlone(StepCtx(c))

\* kb.HTML
HTML(text) == [type |-> "html", text |-> text]

\* context.Output.String()
OutputString(c) == [k \in 1..Len(c.Output) |-> c.Output[k].tok]

\* conversion.RelatedLinksAsHTML()
RelatedLinksAsHTML(t) == <<>>

\* the page Convert builds before the run
NewPage(t) ==
    [Slug  |-> IF t \in DOMAIN bytopic THEN bytopic[t] ELSE <<>>,
     Title |-> topics[t].Title, Story |-> <<>>]

NoConversion ==
    [pc |-> "idle", Topic |-> <<>>, Context |-> "none",
     page |-> [Slug |-> <<>>, Title |-> <<>>, Story |-> <<>>],
     errs |-> <<>>, fatal |-> "nil", met |-> {}]

\* mutant of ContextOf: the conversions share one Context
ContextOfShared(w) == "w1"

\* conversion.Context = ditaconvert.NewConversion(...): the Context of the
\* conversion of worker w
ContextOf(w) == w

\* mutant of FatalResult: the diagnostics collected so far are returned too
FatalResultWithErrors(cv, c) ==
    [cv EXCEPT !.pc = "returned", !.errs = c.Errors, !.fatal = c.err]

\* return page, nil, err
FatalResult(cv, c) ==
    [cv EXCEPT !.pc = "returned", !.errs = <<>>, !.fatal = c.err]

\* what Convert returns once context.Run() has returned
ConvertResult(cv, c) ==
    IF c.err # "nil" THEN FatalResult(cv, c)
    ELSE [cv EXCEPT !.pc = "returned",
                    !.page.Story = @ \o <<HTML(OutputString(c)),
                                          HTML(RelatedLinksAsHTML(cv.Topic))>>,
                    !.errs = c.Errors,
                    !.fatal = "nil"]

\* mutant of ConvertContext: only ToSlug is registered
ConvertContextLinksOnly(t) ==
    [NewConversion(t) EXCEPT !.Rules = [@ EXCEPT !.Callback = {"a"}]]

\* the Context of a conversion when Run is called: Convert has registered
\* ToSlug and InlineImage
ConvertContext(t) ==
    [NewConversion(t) EXCEPT !.Rules = [@ EXCEPT !.Callback = {"a", "img"}]]

\* worker w calls Convert for topic t
Convert(w, t) ==
    /\ conversions[w].pc = "idle"
    /\ t \in DOMAIN topics
    /\ contexts' = [contexts EXCEPT ![ContextOf(w)] = ConvertContext(t)]
    /\ conversions' =
           [conversions EXCEPT ![w] =
               [NoConversion EXCEPT !.pc = "run", !.Topic = t,
                                    !.Context = ContextOf(w),
                                    !.page = NewPage(t)]]

\* the workers whose run has begun and not returned
Running == {v \in Workers : conversions[v].pc = "run"}

\* context.Run() of worker w handles one token
Run(w) ==
    /\ conversions[w].pc = "run"
    /\ contexts[conversions[w].Context].state = "run"
    /\ contexts' = [contexts EXCEPT ![conversions[w].Context] = StepCtx(@)]
    /\ conversions' = [conversions EXCEPT ![w].met = @ \cup (Running \ {w})]

\* context.Run() of worker w has returned, and Convert returns
ConvertReturn(w) ==
    /\ conversions[w].pc = "run"
    /\ contexts[conversions[w].Context].state # "run"
    /\ conversions' =
           [conversions EXCEPT ![w] = ConvertResult(@, contexts[@.Context])]
    /\ UNCHANGED contexts

\* no page is being converted
ConvertIdle ==
    /\ conversions = [w \in Workers |-> NoConversion]
    /\ contexts = [w \in Workers |-> NoContext]

-----------------------------------------------------------------------------
(* Calls of Slugify, ValidateSlug (src/kb/slug.go) and titelize *)

\* the longest string a call is given at first
MaxLen == 3

\* the largest number of calls in a row
MaxCalls == 2

\* the characters of the strings: a lower-case and an upper-case letter, the
\* separators of Slugify and of titelize, a symbol with a name ('^') and one
\* without ('~')
Alphabet == {"a", "B", "/", "-", " ", "&", "^", "~"}

Strings == UNION {[1..n -> Alphabet] : n \in 0..MaxLen}

\* mutant of ValidateSlug: only the empty slug is refused
ValidateSlugOnlyEmpty(slug) ==
    IF Len(slug) = 0 THEN "slug cannot be empty" ELSE "nil"

\* ValidateSlug: the error it returns, "nil" for none
ValidateSlug(slug) ==
    IF Len(slug) = 0 THEN "slug cannot be empty"
    ELSE IF slug # Slugify(slug) THEN "slugification modified the slug"
    ELSE "nil"

Call(op, arg, res) == [op |-> op, arg |-> arg, res |-> res]

\* str = string(Slugify(str))
SlugifyCall ==
    /\ Len(calls) < MaxCalls
    /\ str' = Slugify(str)
    /\ calls' = Append(calls, Call("Slugify", str, Slugify(str)))

\* ValidateSlug(Slug(str))
ValidateSlugCall ==
    /\ Len(calls) < MaxCalls
    /\ calls' = Append(calls, Call("ValidateSlug", str, ValidateSlug(str)))
    /\ UNCHANGED str

\* str = titelize(str)
TitelizeCall ==
    /\ Len(calls) < MaxCalls
    /\ str' = titelize(str)
    /\ calls' = Append(calls, Call("titelize", str, titelize(str)))

\* no string function is being called
TextIdle ==
    /\ str = <<>>
    /\ calls = <<>>

\* no conversion is running
RewriterIdle ==
    /\ rules = "none"
    /\ consumed = <<>>
    /\ stack = <<>>
    /\ output = <<>>
    /\ called = <<>>
    /\ rwpc = "idle"

-----------------------------------------------------------------------------
(* Pages, src/kb/pgdb/pages.go: the Pages table and the PageJournal *)

\* the callers of Pages
Procs == {"p1", "p2"}

\* the largest number of calls of Pages begun
MaxOps == 3

\* db.GroupID
GroupID == <<"g">>

\* the Slug of the page of group g that is edited
PageG == <<"g", "=", "p">>

\* kb.TokenizeLink: the owner in front of the '=' and the whole slug
TokenizeLink(link) ==
    LET slug == Slugify(IF HasPrefix(link, <<"/">>) THEN Tail(link) ELSE link)
        i    == IndexFrom(slug, "=", 1)
    IN  [owner |-> IF i = 0 THEN <<>> ELSE SubSeq(slug, 1, i - 1),
         page  |-> slug]

\* a kb.Page: Data stands for its Story, the actions applied to it
Page(slug, version, data) == [Slug |-> slug, Version |-> version, Data |-> data]

\* the pages Create is given: the page of group g, a page of another
\* group, and a page of group g whose Slug is not a slug
NewPages ==
    {Page(PageG, 1, <<>>), Page(<<"h", "=", "p">>, 1, <<>>),
     Page(<<"g", "=", "P">>, 1, <<>>)}

\* the kb.Action values Edit is given; Apply refuses "bad"
PageActions == {"x", "y", "bad"}

\* the versions the callers pass
Versions == 0..2

\* page.Apply(action): the action is applied and the Version goes up by one
Apply(page, action) ==
    IF action = "bad" THEN [err |-> "unknown action", page |-> page]
    ELSE [err |-> "nil",
          page |-> [page EXCEPT !.Version = @ + 1, !.Data = Append(@, action)]]

\* a row of the Pages table
Row(owner, page) ==
    [OwnerID |-> owner, Slug |-> page.Slug, Version |-> page.Version,
     Data |-> page.Data]

\* db.record: INSERT INTO PageJournal
record(jr, action, slug, version) ==
    Append(jr, [Action |-> action, Slug |-> slug, Version |-> version])

IdleProc ==
    [pc |-> "idle", id |-> <<>>, version |-> 0, action |-> "", page |-> Page(<<>>, 0, <<>>),
     loaded |-> Page(<<>>, 0, <<>>)]

\* the calls begun so far
Begun == Len(oplog) + Cardinality({p \in Procs : procs[p].pc # "idle"})

\* history: a call has returned
Logged(p, op, slug, version, result, changed) ==
    Append(oplog, [proc |-> p, op |-> op, slug |-> slug, version |-> version,
                   result |-> result, changed |-> changed])

\* the error checks of Create in front of the INSERT, and the duplicate key
CreateError(pgs, page) ==
    IF TokenizeLink(page.Slug).owner # GroupID THEN "mismatching page.Slug"
    ELSE IF ValidateSlug(page.Slug) # "nil" THEN "ErrInvalidSlug"
    ELSE IF page.Slug \in DOMAIN pgs THEN "ErrPageExists"
    ELSE "nil"

\* Pages.Create
Create(p, page) ==
    /\ procs[p].pc = "idle"
    /\ Begun < MaxOps
    /\ LET err == CreateError(pages, page)
       IN  /\ pages' = IF err = "nil"
                       THEN Put(pages, page.Slug, Row(GroupID, page)) ELSE pages
           /\ journal' = IF err = "nil"
                         THEN record(journal, "create", page.Slug, 0) ELSE journal
           /\ oplog' = Logged(p, "Create", page.Slug, page.Version, err, err = "nil")
    /\ UNCHANGED procs

\* mutant of Matches: the Version is not compared
MatchesAnyVersion(row, slug, version) ==
    row.OwnerID = GroupID /\ row.Slug = slug

\* WHERE OwnerID = $1 AND Slug = $2 AND Version = $3
Matches(row, slug, version) ==
    row.OwnerID = GroupID /\ row.Slug = slug /\ row.Version = version

\* the rows the UPDATE of Overwrite affects
Affected(pgs, slug, version) ==
    {k \in DOMAIN pgs : Matches(pgs[k], slug, version)}

\* Pages.Overwrite: the tables afterwards and the error returned
OverwriteResult(pgs, jr, version, page) ==
    IF TokenizeLink(page.Slug).owner # GroupID
    THEN [pages |-> pgs, journal |-> jr, err |-> "mismatching page.Slug"]
    ELSE IF Affected(pgs, page.Slug, version) = {}
    THEN [pages |-> pgs, journal |-> jr, err |-> "ErrConcurrentEdit"]
    ELSE [pages |-> [k \in DOMAIN pgs |->
                        IF k \in Affected(pgs, page.Slug, version)
                        THEN Row(pgs[k].OwnerID, page) ELSE pgs[k]],
          journal |-> record(jr, "overwrite", page.Slug, version),
          err |-> "nil"]

\* a caller calls Pages.Overwrite itself
Overwrite(p, version, page) ==
    /\ procs[p].pc = "idle"
    /\ Begun < MaxOps
    /\ LET r == OverwriteResult(pages, journal, version, page)
       IN  /\ pages' = r.pages
           /\ journal' = r.journal
           /\ oplog' = Logged(p, "Overwrite", page.Slug, version, r.err,
                              r.err = "nil")
    /\ UNCHANGED procs

\* Pages.Edit up to its call of Overwrite: Load, the version test, Apply
\* and the "try-edit" record
EditLoad(p, id, version, action) ==
    /\ procs[p].pc = "idle"
    /\ Begun < MaxOps
    /\ IF id \notin DOMAIN pages
       THEN /\ oplog' = Logged(p, "Edit", id, version, "ErrPageNotExist", FALSE)
            /\ UNCHANGED <<procs, journal>>
       ELSE LET page == Page(pages[id].Slug, pages[id].Version, pages[id].Data)
            IN  IF version > 0 /\ page.Version # version
                THEN /\ oplog' = Logged(p, "Edit", id, version,
                                        "ErrConcurrentEdit", FALSE)
                     /\ UNCHANGED <<procs, journal>>
                ELSE IF Apply(page, action).err # "nil"
                THEN /\ oplog' = Logged(p, "Edit", id, page.Version,
                                        Apply(page, action).err, FALSE)
                     /\ UNCHANGED <<procs, journal>>
                ELSE /\ procs' = [procs EXCEPT ![p] =
                            [pc |-> "overwrite", id |-> id,
                             version |-> page.Version, action |-> action,
                             page |-> Apply(page, action).page,
                             loaded |-> page]]
                     /\ journal' = record(journal, "try-edit", id, page.Version)
                     /\ UNCHANGED oplog
    /\ UNCHANGED pages

\* Pages.Edit: return db.Overwrite(id, version, page)
EditOverwrite(p) ==
    /\ procs[p].pc = "overwrite"
    /\ LET r == OverwriteResult(pages, journal, procs[p].version, procs[p].page)
       IN  /\ pages' = r.pages
           /\ journal' = r.journal
           /\ oplog' = Logged(p, "Edit", procs[p].id, procs[p].version, r.err,
                              r.err = "nil")
    /\ procs' = [procs EXCEPT ![p] = IdleProc]

\* the rows the DELETE affects
Deleted(pgs, id, version) ==
    {k \in DOMAIN pgs :
        pgs[k].Slug = id /\ (version > 0 => pgs[k].Version = version)}

\* the test in front of db.record("delete", ...): if err != nil
DeleteRecords(err) == err # "nil"

\* Pages.Delete
Delete(p, id, version) ==
    /\ procs[p].pc = "idle"
    /\ Begun < MaxOps
    /\ LET gone == Deleted(pages, id, version)
       IN  IF gone = {}
           THEN /\ oplog' = Logged(p, "Delete", id, version,
                                   "ErrConcurrentEdit", FALSE)
                /\ UNCHANGED <<pages, journal>>
           ELSE /\ pages' = [k \in DOMAIN pages \ gone |-> pages[k]]
                /\ journal' = IF DeleteRecords("nil")
                              THEN record(journal, "delete", id, version)
                              ELSE journal
                /\ oplog' = Logged(p, "Delete", id, version, "nil", TRUE)
    /\ UNCHANGED procs

\* TopicsSorted has not been called
SortedIdle == sorted = [called |-> FALSE, r |-> <<>>]

\* the Pages table and its journal are empty and nobody calls
PagesIdle ==
    /\ pages = EmptyMap
    /\ journal = <<>>
    /\ procs = EmptyMap
    /\ oplog = <<>>

Init ==
    MapInit /\ RewriterIdle /\ ConvertIdle /\ TextIdle /\ SortedIdle /\ PagesIdle

Spec == Init /\ [][MapNext]_vars

SpecRerun == Init /\ [][RerunNext]_vars

SortedNext ==
    \/ MapNext
    \/ TopicsSorted

SpecSorted == Init /\ [][SortedNext]_vars

\* no mapping is being built
MapIdle ==
    /\ topics = EmptyMap
    /\ corpus = EmptyMap
    /\ byslug = EmptyMap
    /\ bytopic = EmptyMap
    /\ errors = <<>>
    /\ pc = "idle"
    /\ todo = {}
    /\ pending = {}
    /\ optional = {}
    /\ order = <<>>
    /\ visits = <<>>
    /\ run = 0
    /\ last = NoResult

mapvars == <<topics, byslug, bytopic, errors, pc, todo, pending, optional,
             order, visits, corpus, run, last>>

RewriteNext ==
    \/ \E tok \in InputStarts(rules) : ReadStart(tok)
          /\ UNCHANGED <<mapvars, cvvars, txvars, tsvars, pgvars>>
    \/ ReadEnd
          /\ UNCHANGED <<mapvars, cvvars, txvars, tsvars, pgvars>>
    \/ \E n \in InputNames(rules) : ReadBadEnd(n)
          /\ UNCHANGED <<mapvars, cvvars, txvars, tsvars, pgvars>>
    \/ ReadCharData("k")
          /\ UNCHANGED <<mapvars, cvvars, txvars, tsvars, pgvars>>
    \/ ReadCharData("drop-me")
          /\ UNCHANGED <<mapvars, cvvars, txvars, tsvars, pgvars>>
    \/ ReadEOF
          /\ UNCHANGED <<mapvars, cvvars, txvars, tsvars, pgvars>>

InitRewrite ==
    MapIdle /\ RewriteInit /\ ConvertIdle /\ TextIdle /\ SortedIdle /\ PagesIdle

SpecRewrite == InitRewrite /\ [][RewriteNext]_vars

\* CreateMapping has returned the Mapping of the Index
MapReturned(index) ==
    /\ topics = index
    /\ corpus = index
    /\ byslug = LinkBySlug(index)
    /\ bytopic = LinkByTopic(index)
    /\ errors = <<ClashError(index[PathC].Title, PathC, PathB),
                  ClashError(index[PathD].Title, PathD, PathA)>>
    /\ pc = "done"
    /\ todo = {}
    /\ pending = {}
    /\ optional = {}
    /\ order = <<PathA, PathB, PathC, PathD>>
    /\ visits = <<>>
    /\ run = 1
    /\ last = NoResult

ConvertNext ==
    \/ \E w \in Workers : \E t \in DOMAIN topics :
          Convert(w, t) /\ UNCHANGED <<mapvars, rwvars, txvars, tsvars, pgvars>>
    \/ \E w \in Workers : Run(w)
          /\ UNCHANGED <<mapvars, rwvars, txvars, tsvars, pgvars>>
    \/ \E w \in Workers : ConvertReturn(w)
          /\ UNCHANGED <<mapvars, rwvars, txvars, tsvars, pgvars>>

InitConvert ==
    /\ \E raw \in LinkDocs : MapReturned(LinkIndex(raw))
    /\ RewriterIdle
    /\ ConvertIdle
    /\ TextIdle
    /\ SortedIdle
    /\ PagesIdle

SpecConvert == InitConvert /\ [][ConvertNext]_vars

TextNext ==
    \/ SlugifyCall
          /\ UNCHANGED <<mapvars, rwvars, cvvars, tsvars, pgvars>>
    \/ ValidateSlugCall
          /\ UNCHANGED <<mapvars, rwvars, cvvars, tsvars, pgvars>>
    \/ TitelizeCall
          /\ UNCHANGED <<mapvars, rwvars, cvvars, tsvars, pgvars>>

InitText ==
    /\ MapIdle
    /\ RewriterIdle
    /\ ConvertIdle
    /\ str \in Strings
    /\ calls = <<>>
    /\ SortedIdle
    /\ PagesIdle

SpecText == InitText /\ [][TextNext]_vars

\* no other part of the program is at work
OthersIdle == MapIdle /\ RewriterIdle /\ ConvertIdle /\ TextIdle /\ SortedIdle

\* the page of group g is stored and nobody calls
InitEdit ==
    /\ OthersIdle
    /\ pages = (PageG :> Row(GroupID, Page(PageG, 1, <<>>)))
    /\ journal = <<>>
    /\ procs = [p \in Procs |-> IdleProc]
    /\ oplog = <<>>

EditNext ==
    \/ \E p \in Procs : \E version \in Versions : \E action \in PageActions :
          EditLoad(p, PageG, version, action)
              /\ UNCHANGED <<mapvars, rwvars, cvvars, txvars, tsvars>>
    \/ \E p \in Procs :
          EditOverwrite(p) /\ UNCHANGED <<mapvars, rwvars, cvvars, txvars, tsvars>>

SpecEdit == InitEdit /\ [][EditNext]_vars

\* the Pages table is empty and nobody calls
InitPages ==
    /\ OthersIdle
    /\ pages = EmptyMap
    /\ journal = <<>>
    /\ procs = [p \in Procs |-> IdleProc]
    /\ oplog = <<>>

PagesNext ==
    \/ \E p \in Procs : \E page \in NewPages :
          Create(p, page) /\ UNCHANGED <<mapvars, rwvars, cvvars, txvars, tsvars>>
    \/ \E p \in Procs : \E version \in Versions :
          Overwrite(p, version, Page(PageG, version + 1, <<"o">>))
              /\ UNCHANGED <<mapvars, rwvars, cvvars, txvars, tsvars>>
    \/ \E p \in Procs : \E version \in Versions :
          Delete(p, PageG, version)
              /\ UNCHANGED <<mapvars, rwvars, cvvars, txvars, tsvars>>
    \/ EditNext

SpecPages == InitPages /\ [][PagesNext]_vars

-----------------------------------------------------------------------------
(* Properties of CreateMapping *)

\* the topics the first loop has produced
Visited == {order[i] : i \in 1..Len(order)}

\* the errors recorded for topic f (as the topic the error is about)
ErrorsFor(f) == {i \in 1..Len(errors) : errors[i].file = f}

\* the title of f as the first loop sees it, from the corpus the call was given
NormTitle(f) == titelize(corpus[f].Title)

Min(S) == CHOOSE x \in S : \A y \in S : x <= y

\* C1: after every iteration of both loops and in the returned Mapping,
\* BySlug and ByTopic are inverse of each other; no topic has two identifiers
\* and no identifier maps to two topics.
C1_Bijection ==
    /\ \A s \in DOMAIN byslug :
          byslug[s] \in DOMAIN bytopic /\ bytopic[byslug[s]] = s
    /\ \A f \in DOMAIN bytopic :
          bytopic[f] \in DOMAIN byslug /\ byslug[bytopic[f]] = f
    /\ \A s1, s2 \in DOMAIN byslug : byslug[s1] = byslug[s2] => s1 = s2
    /\ \A f1, f2 \in DOMAIN bytopic : bytopic[f1] = bytopic[f2] => f1 = f2

\* a Mapping is returned in which two topics are mapped, one of them promoted
C1_Witness ==
    /\ pc = "done"
    /\ Cardinality(DOMAIN bytopic) >= 2
    /\ \E f \in DOMAIN bytopic : bytopic[f] # Slugify(NormTitle(f))

\* C2: every topic produced by the first loop is either mapped (key of
\* ByTopic, value of BySlug) with no error recorded for it, or has exactly one
\* error and is in neither map; all topics are processed, so in the end
\* len(errors) + len(ByTopic) is the number of topics of the Index.
C2_Partition ==
    /\ \A f \in Visited :
          \/ /\ f \in DOMAIN bytopic
             /\ f \in Range(byslug)
             /\ ErrorsFor(f) = {}
          \/ /\ Cardinality(ErrorsFor(f)) = 1
             /\ f \notin DOMAIN bytopic
             /\ f \notin Range(byslug)
    /\ \A f \in DOMAIN topics \ Visited :
          f \notin DOMAIN bytopic /\ f \notin Range(byslug) /\ ErrorsFor(f) = {}
    /\ pc \in {"promote", "done"} =>
          /\ Visited = DOMAIN topics
          /\ Len(errors) + Cardinality(DOMAIN bytopic) = Cardinality(DOMAIN topics)

\* a Mapping is returned for a corpus with both mapped and excluded topics
C2_Witness ==
    /\ pc = "done"
    /\ Len(errors) >= 1
    /\ Cardinality(DOMAIN bytopic) >= 2

\* C3: a topic whose candidate identifier is already a key of BySlug gets one
\* "clashing title" error naming its file and the prior owner's file, and is
\* excluded; the prior owner's entry stays; among the topics with non-empty
\* titles of one identifier exactly the first visited is registered.
C3_Clash ==
    LET title == [f \in DOMAIN corpus |-> NormTitle(f)]
        slug  == [f \in DOMAIN corpus |-> Slugify(title[f])]
    IN  \A i \in 1..Len(order) :
            LET f == order[i]
                \* the topics with a title and the identifier of f visited before f
                E == {j \in 1..(i - 1) :
                         title[order[j]] # <<>> /\ slug[order[j]] = slug[f]}
            IN  /\ (E # {}) =>
                     /\ f \notin DOMAIN bytopic
                     /\ f \notin Range(byslug)
                     /\ \E k \in 1..Len(errors) :
                           /\ ErrorsFor(f) = {k}
                           /\ errors[k] = ClashError(title[f], f, order[Min(E)])
                /\ (E = {} /\ title[f] # <<>>) =>
                     /\ f \in DOMAIN bytopic
                     /\ ErrorsFor(f) = {}
                     /\ pc = "assign" => (bytopic[f] = slug[f] /\ byslug[slug[f]] = f)

\* a Mapping is returned with a clash error against a topic whose title is not
\* empty, the prior owner having been promoted since
C3_Witness ==
    /\ pc = "done"
    /\ \E k \in 1..Len(errors) :
          /\ errors[k].kind = "clashing title"
          /\ errors[k].title # <<>>
          /\ errors[k].other \in DOMAIN bytopic
          /\ bytopic[errors[k].other] # Slugify(errors[k].title)

\* C4: every topic whose Title is empty is recorded with a "title missing"
\* error, not a "clashing title" error, and is in neither map, whatever the
\* other topics and the visiting order.
C4_MissingTitle ==
    \A f \in Visited :
        NormTitle(f) = <<>> =>
            /\ f \notin DOMAIN bytopic
            /\ f \notin Range(byslug)
            /\ \E k \in 1..Len(errors) :
                  ErrorsFor(f) = {k} /\ errors[k] = MissingError(f)

\* what the second loop saw made the topic of visit v a candidate for promotion
Eligible(v) == v.short # <<>> /\ Len(v.short) < Len(v.title) /\ ~v.taken

\* the promotion of visit i took effect on the topic itself
PromotedAt(i) ==
    LET v == visits[i]
        s == Slugify(v.short)
    IN  /\ v.file \in DOMAIN bytopic
        /\ bytopic[v.file] = s
        /\ s \in DOMAIN byslug
        /\ byslug[s] = v.file
        /\ topics[v.file].Title = v.short
        /\ topics[v.file].ShortTitle = <<>>

C6_Idempotent ==
    (run = 2 /\ pc = "done" /\ order = last.order) =>
        (byslug = last.byslug /\ bytopic = last.bytopic)

-----------------------------------------------------------------------------
(* Properties of the rewriter *)

\* the start tags (by index) open after the first n tokens of toks
RECURSIVE Opens(_, _)
Opens(toks, n) ==
    IF n = 0 THEN <<>>
    ELSE LET st == Opens(toks, n - 1)
             t  == toks[n]
         IN  IF t.kind = "start" THEN Append(st, n)
             ELSE IF t.kind = "end" /\ st # <<>> THEN SubSeq(st, 1, Len(st) - 1)
             ELSE st

\* the elements of the input that enclose token i, outermost first
Enclosing(i) == Opens(consumed, i - 1)

SeqSet(q) == {q[k] : k \in 1..Len(q)}

\* token i is the end tag on which the decoder failed
IsBadEnd(i) ==
    /\ consumed[i].kind = "end"
    /\ \/ Enclosing(i) = <<>>
       \/ consumed[Enclosing(i)[Len(Enclosing(i))]].name # consumed[i].name

\* the element token i is the start or end tag of (0 for other tokens)
ElementOf(i) ==
    IF consumed[i].kind = "start" THEN i
    ELSE IF consumed[i].kind = "end" /\ ~IsBadEnd(i)
    THEN Enclosing(i)[Len(Enclosing(i))]
    ELSE 0

\* the elements whose subtree token i belongs to
Inside(i) ==
    SeqSet(Enclosing(i)) \cup (IF consumed[i].kind = "start" THEN {i} ELSE {})

\* the elements that properly contain token i
Ancestors(i) == Inside(i) \ {ElementOf(i)}

InRemoved(i) == \E e \in Inside(i) : consumed[e].name \in rules.Remove

\* the entries of the output written for token i
WrittenFor(i) == {k \in 1..Len(output) : output[k].origin = i}

\* the tokens of the input that are not the one the decoder failed on
Processed == {i \in 1..Len(consumed) : ~IsBadEnd(i)}

\* the start tags of the elements that are rewritten by the default emission
DefaultStarts ==
    {i \in Processed :
        /\ consumed[i].kind = "start"
        /\ ~InRemoved(i)
        /\ consumed[i].name \notin rules.Unwrap
        /\ OutName(rules, consumed[i].name) \notin rules.Callback}

\* the end tag of element e, 0 if it has not been read
EndOf(e) ==
    IF \E j \in Processed : consumed[j].kind = "end" /\ ElementOf(j) = e
    THEN CHOOSE j \in Processed : consumed[j].kind = "end" /\ ElementOf(j) = e
    ELSE 0

OutTokens == [k \in 1..Len(output) |-> output[k].tok]

\* toks is a sequence of properly nested elements and character data
RECURSIVE NestedFrom(_, _, _)
NestedFrom(toks, n, open) ==
    IF n > Len(toks) THEN open = <<>>
    ELSE IF toks[n].kind = "start"
    THEN NestedFrom(toks, n + 1, Append(open, toks[n].name))
    ELSE IF toks[n].kind = "end"
    THEN /\ open # <<>>
         /\ open[Len(open)] = toks[n].name
         /\ NestedFrom(toks, n + 1, SubSeq(open, 1, Len(open) - 1))
    ELSE NestedFrom(toks, n + 1, open)

WellNested(toks) == NestedFrom(toks, 1, <<>>)

IsHTMLTable == "xref" \in DOMAIN rules.Translate

\* C7: a name present in several sub-maps is decided Remove first, then
\* Unwrap, then Translate, then Identity; with the HTML rules colspec is in
\* Translate and in Remove, and a colspec element and its subtree never reach
\* the output, nor does a colgroup element.
C7_Precedence ==
    /\ \A i \in Processed :
          (consumed[i].kind = "start"
             /\ \A e \in Ancestors(i) : consumed[e].name \notin rules.Remove) =>
              LET n == consumed[i].name
              IN  CASE n \in rules.Remove -> WrittenFor(i) = {}
                    [] n \notin rules.Remove /\ n \in rules.Unwrap ->
                          WrittenFor(i) = {}
                    [] OTHER ->
                          \E k \in 1..Len(output) :
                              /\ WrittenFor(i) = {k}
                              /\ output[k].tok.kind = "start"
                              /\ output[k].tok.name =
                                    IF n \in DOMAIN rules.Translate
                                    THEN rules.Translate[n] ELSE n
    /\ \A i \in Processed :
          (\E e \in Ancestors(i) :
               consumed[e].name \in rules.Remove /\ consumed[e].name \in rules.Unwrap)
              => WrittenFor(i) = {}
    /\ IsHTMLTable =>
          /\ "colspec" \in DOMAIN rules.Translate
          /\ \A k \in 1..Len(output) : output[k].tok.name # "colgroup"
          /\ \A i \in 1..Len(consumed) :
                (\E e \in Inside(i) : consumed[e].name = "colspec")
                    => WrittenFor(i) = {}

\* the HTML input with a colspec element has been rewritten to the end
C7_Witness ==
    /\ rwpc = "ok"
    /\ IsHTMLTable
    /\ consumed = HTMLDoc
    /\ Len(output) > 0

\* an element named in all three sub-maps, with a child, has been rewritten
C7_WitnessOverlap ==
    /\ rwpc = "ok"
    /\ rules = OverlapRules
    /\ \E i \in 1..Len(consumed) :
          /\ consumed[i].kind = "text"
          /\ \E e \in Ancestors(i) : consumed[e].name = "x"
    /\ \E i \in 1..Len(consumed) :
          /\ consumed[i].kind = "text"
          /\ \E e \in Ancestors(i) : consumed[e].name = "y"

\* C8: of an element marked Remove no token of the subtree is written, no
\* callback is invoked for a descendant, and rewriting resumes with the token
\* after its end tag: what lies outside removed subtrees is rewritten.
C8_Removed ==
    /\ \A k \in 1..Len(output) : ~InRemoved(output[k].origin)
    /\ \A k \in 1..Len(called) : ~InRemoved(called[k])
    /\ \A i \in Processed :
          (~InRemoved(i) /\ consumed[i].kind = "text") =>
              \E k \in 1..Len(output) :
                  WrittenFor(i) = {k} /\ output[k].tok = consumed[i]
    /\ \A i \in Processed :
          (/\ ~InRemoved(i)
           /\ consumed[i].kind = "start"
           /\ consumed[i].name \notin rules.Unwrap) => WrittenFor(i) # {}
    /\ IsHTMLTable =>
          \A i \in 1..Len(consumed) :
              (\E e \in Inside(i) :
                   consumed[e].name \in {"br", "draft-comment", "colspec"})
                  => (WrittenFor(i) = {} /\ i \notin SeqSet(called))

\* a removed element held a link, and text after its end tag was written
C8_Witness ==
    /\ rwpc = "ok"
    /\ rules = ConvertRules
    /\ \E i \in 1..Len(consumed) :
          /\ consumed[i].name = "xref"
          /\ InRemoved(i)
    /\ \E e, j \in 1..Len(consumed) :
          /\ consumed[e].name \in rules.Remove
          /\ EndOf(e) # 0
          /\ EndOf(e) < j
          /\ WrittenFor(j) # {}

\* the innermost element enclosing token i that is not unwrapped (0 if none)
EmittingParent(i) ==
    LET A == {e \in Ancestors(i) : consumed[e].name \notin rules.Unwrap}
    IN  IF A = {} THEN 0 ELSE CHOOSE e \in A : \A d \in A : d <= e

\* the origin of the start tag that encloses entry k of the output (0 if none)
OutputParent(k) ==
    LET open == Opens(OutTokens, k - 1)
        own  == IF OutTokens[k].kind = "end" /\ open # <<>>
                THEN SubSeq(open, 1, Len(open) - 1) ELSE open
    IN  IF own = <<>> THEN 0 ELSE output[own[Len(own)]].origin

\* C9: of an element marked Unwrap (and not Remove) neither the start tag
\* nor the end tag is written; its children are rewritten and appear in their
\* original order, as children of the element's output parent.
C9_Unwrap ==
    /\ \A i \in Processed :
          (/\ ElementOf(i) # 0
           /\ consumed[ElementOf(i)].name \in rules.Unwrap
           /\ ~InRemoved(i)) => WrittenFor(i) = {}
    /\ \A k, l \in 1..Len(output) : k < l => output[k].origin < output[l].origin
    /\ \A i \in Processed :
          (/\ ~InRemoved(i)
           /\ \/ consumed[i].kind = "text"
              \/ consumed[ElementOf(i)].name \notin rules.Unwrap)
              => \E k \in 1..Len(output) :
                    /\ WrittenFor(i) = {k}
                    /\ output[k].tok.kind = consumed[i].kind
                    /\ OutputParent(k) = EmittingParent(i)
    /\ IsHTMLTable =>
          \A i \in Processed :
              (ElementOf(i) # 0
                 /\ consumed[ElementOf(i)].name \in {"dlentry", "tgroup"})
                  => WrittenFor(i) = {}

\* an unwrapped element with a child element inside an emitted element
C9_Witness ==
    /\ rwpc = "ok"
    /\ \E e, c \in 1..Len(consumed) :
          /\ consumed[e].kind = "start"
          /\ consumed[e].name \in rules.Unwrap
          /\ ~InRemoved(e)
          /\ EmittingParent(e) # 0
          /\ consumed[c].kind = "start"
          /\ Enclosing(c) # <<>>
          /\ Enclosing(c)[Len(Enclosing(c))] = e
          /\ WrittenFor(c) # {}

\* <a><strong>k</strong></a>
ExampleOutput ==
    <<StartTok("a", <<>>), StartTok("strong", <<>>), TextTok("k"),
      EndTok("strong"), EndTok("a")>>

\* C10: an element neither removed nor unwrapped and without callback gives
\* one start tag and one matching end tag, named Translate[name] when
\* registered and the input name otherwise, with the attributes unchanged and
\* the rewritten children in between; a well-nested input gives a well-nested
\* output, and the example input gives <a><strong>k</strong></a>.
C10_Emit ==
    /\ \A i \in DefaultStarts :
          LET n   == consumed[i].name
              out == IF n \in DOMAIN rules.Translate THEN rules.Translate[n] ELSE n
          IN  /\ \E k \in 1..Len(output) :
                    /\ WrittenFor(i) = {k}
                    /\ output[k].tok = StartTok(out, consumed[i].attrs)
              /\ EndOf(i) # 0 =>
                    \E k, l \in 1..Len(output) :
                        /\ WrittenFor(i) = {k}
                        /\ WrittenFor(EndOf(i)) = {l}
                        /\ k < l
                        /\ output[l].tok = EndTok(out)
                        /\ \A j \in Processed :
                              (i < j /\ j < EndOf(i)) =>
                                  \A m \in WrittenFor(j) : k < m /\ m < l
    /\ rwpc = "ok" => WellNested(OutTokens)
    /\ (rwpc = "ok" /\ rules = ExampleRules /\ consumed = ExampleDoc)
          => OutTokens = ExampleOutput
    /\ IsHTMLTable =>
          \A i \in DefaultStarts :
              /\ consumed[i].name = "i" =>
                    \E k \in WrittenFor(i) : output[k].tok.name = "em"
              /\ consumed[i].name = "p" =>
                    \E k \in WrittenFor(i) : output[k].tok.name = "p"

\* the example input has been rewritten to the end
C10_Witness ==
    /\ rwpc = "ok"
    /\ rules = ExampleRules
    /\ consumed = ExampleDoc

\* an element with an attribute has been renamed by the HTML rules
C10_WitnessAttrs ==
    /\ rwpc = "ok"
    /\ IsHTMLTable
    /\ \E i \in DefaultStarts :
          /\ consumed[i].name = "i"
          /\ consumed[i].attrs # <<>>
          /\ EndOf(i) # 0

-----------------------------------------------------------------------------
(* Properties of the page conversion *)

\* the workers that have called Convert
Started == {w \in Workers : conversions[w].pc # "idle"}

\* the workers whose Convert has returned
Returned == {w \in Workers : conversions[w].pc = "returned"}

\* the Context of the conversion of worker w
Ctx(w) == contexts[conversions[w].Context]

\* token i of the input of c lies in the subtree of a removed element
CtxInRemoved(c, i) ==
    \E e \in SeqSet(Opens(c.toks, i - 1))
             \cup (IF c.toks[i].kind = "start" THEN {i} ELSE {}) :
        c.toks[e].name \in c.Rules.Remove

\* the start tags c has handed to the callback registered under out
CallbackStarts(c, out) ==
    {i \in 1..(c.pos - 1) :
        /\ c.toks[i].kind = "start"
        /\ out \in c.Rules.Callback
        /\ OutName(c.Rules, c.toks[i].name) = out
        /\ c.toks[i].name \notin c.Rules.Unwrap
        /\ ~CtxInRemoved(c, i)}

\* the tokens c wrote while it handled token i
RECURSIVE TokensOf(_, _)
TokensOf(out, i) ==
    IF out = <<>> THEN <<>>
    ELSE (IF Head(out).origin = i THEN <<Head(out).tok>> ELSE <<>>)
             \o TokensOf(Tail(out), i)

WrittenAt(c, i) == TokensOf(c.Output, i)

\* the href of start tag i of the input of c
GivenHref(c, i) == getAttr(c.toks[i].attrs, "href")

\* the diagnostics of kind in errs
OfKind(errs, kind) == {k \in 1..Len(errs) : errs[k].kind = kind}

\* C11: when the token stream of the topic is malformed, Convert returns the
\* run's error as the fatal error, the page's Story is empty, and the
\* diagnostics list is returned empty even when diagnostics had been
\* collected before the failure; a well-formed stream gives no fatal error.
C11_Fatal ==
    \A w \in Returned :
        LET cv == conversions[w]
            c  == Ctx(w)
        IN  /\ ~WellNested(topics[cv.Topic].Raw) =>
                  /\ c.state = "fatal"
                  /\ cv.fatal = c.err
                  /\ cv.fatal \in {"syntax error", "unexpected EOF"}
                  /\ cv.page.Story = <<>>
                  /\ cv.errs = <<>>
            /\ WellNested(topics[cv.Topic].Raw) =>
                  /\ cv.fatal = "nil"
                  /\ cv.page.Story # <<>>

\* Convert has returned a fatal error for a stream that had given a
\* diagnostic before the unmatched end tag
C11_Witness ==
    \E w \in Returned :
        /\ conversions[w].fatal = "syntax error"
        /\ Ctx(w).Errors # <<>>
        /\ Ctx(w).toks = DocMissingThenBadEnd

\* the path part of link, joined to the directory of path and canonicalized
TargetKey(path, link) ==
    CanonicalPath(Join(Dir(path), SplitLink(link).url))

\* link is a relative reference with a path part
HasPathPart(link) ==
    /\ ~HasPrefix(link, <<"h","t","t","p",":">>)
    /\ ~HasPrefix(link, <<"h","t","t","p","s",":">>)
    /\ link # <<>>
    /\ link[1] # "#"

\* the links c has resolved whose target is not in the Index
Misses(c) ==
    {i \in CallbackStarts(c, "a") :
        /\ HasPathPart(GivenHref(c, i))
        /\ TargetKey(c.DecodingPath, GivenHref(c, i)) \notin DOMAIN topics}

\* C12: a reference whose path is not a key of Index.Topics appends exactly
\* one diagnostic to the Context's list and resolves to empty href, title and
\* synopsis with internal=false; the conversion goes on, and Convert returns
\* the fragment with the diagnostics and no fatal error.
C12_NotFound ==
    \A w \in Started :
        LET cv == conversions[w]
            c  == Ctx(w)
        IN  /\ Cardinality(OfKind(c.Errors, "did not find topic"))
                  = Cardinality(Misses(c))
            /\ \A i \in Misses(c) :
                  /\ \E k \in OfKind(c.Errors, "did not find topic") :
                        c.Errors[k].url = SplitLink(GivenHref(c, i)).url
                  /\ LET info == ResolveLinkInfo(<<>>, c.DecodingPath, GivenHref(c, i))
                     IN  /\ info.href = <<>>
                         /\ info.title = <<>>
                         /\ info.synopsis = <<>>
                         /\ info.internal = FALSE
                         /\ Len(info.errors) = 1
                  /\ Len(WrittenAt(c, i)) = 1
                  /\ WrittenAt(c, i)[1].name = "a"
                  /\ getAttr(WrittenAt(c, i)[1].attrs, "href") = <<>>
            /\ (w \in Returned /\ WellNested(c.toks)) =>
                  /\ cv.fatal = "nil"
                  /\ cv.errs = c.Errors
                  /\ Len(cv.page.Story) = 2
                  /\ cv.page.Story[1] = HTML(OutputString(c))
                  /\ c.pos = Len(c.toks) + 1

\* Convert has returned a fragment and one diagnostic for a stream with a
\* reference to a topic that is not there, followed by another link
C12_Witness ==
    \E w \in Returned :
        /\ Ctx(w).toks = DocMissing
        /\ Cardinality(Misses(Ctx(w))) = 1
        /\ Len(conversions[w].errs) = 1
        /\ conversions[w].fatal = "nil"
        /\ Len(conversions[w].page.Story[1].text) = 6

\* the links c has resolved whose target is a topic with an identifier
Hits(c) ==
    {i \in CallbackStarts(c, "a") :
        /\ HasPathPart(GivenHref(c, i))
        /\ TargetKey(c.DecodingPath, GivenHref(c, i)) \in DOMAIN topics
        /\ TargetKey(c.DecodingPath, GivenHref(c, i)) \in DOMAIN bytopic}

ExampleLink == <<".",".","/","a",".","x","m","l","#","i","n","t","r","o">>

\* C13: a reference with a path part is joined to the directory of the topic
\* being converted, canonicalized and looked up; when the topic found has
\* identifier s, the href is s without selector and s#selector with one, and
\* internal=true; ../a.xml#intro from sub/b.xml gives alpha#intro.
C13_Href ==
    \A w \in Started :
        LET c == Ctx(w)
        IN  /\ \A i \in Hits(c) :
                  LET link     == GivenHref(c, i)
                      s        == bytopic[TargetKey(c.DecodingPath, link)]
                      hash     == IndexFrom(link, "#", 1)
                      selector == IF hash = 0 THEN <<>>
                                  ELSE SubSeq(link, hash + 1, Len(link))
                      expected == IF selector = <<>> THEN s
                                  ELSE s \o <<"#">> \o selector
                      info     == ResolveLinkInfo(c.Errors, c.DecodingPath, link)
                  IN  /\ info.href = expected
                      /\ info.internal = TRUE
                      /\ Len(WrittenAt(c, i)) = 1
                      /\ getAttr(WrittenAt(c, i)[1].attrs, "href") = expected
            /\ \A i \in CallbackStarts(c, "a") :
                  (c.DecodingPath = PathB /\ GivenHref(c, i) = ExampleLink) =>
                      /\ i \in Hits(c)
                      /\ TargetKey(PathB, ExampleLink) = PathA
                      /\ getAttr(WrittenAt(c, i)[1].attrs, "href")
                            = <<"a","l","p","h","a","#","i","n","t","r","o">>
            /\ \A i \in CallbackStarts(c, "a") :
                  (c.DecodingPath = PathC /\ GivenHref(c, i) = <<"b",".","x","m","l">>) =>
                      getAttr(WrittenAt(c, i)[1].attrs, "href") = <<"b","e","t","a">>

\* the reference ../a.xml#intro of sub/b.xml has been resolved
C13_Witness ==
    \E w \in Returned :
        /\ conversions[w].Topic = PathB
        /\ \E i \in Hits(Ctx(w)) : GivenHref(Ctx(w), i) = ExampleLink

\* the links c has resolved that begin with http: or https:
WebLinks(c) ==
    {i \in CallbackStarts(c, "a") :
        \/ HasPrefix(GivenHref(c, i), <<"h","t","t","p",":">>)
        \/ HasPrefix(GivenHref(c, i), <<"h","t","t","p","s",":">>)}

\* C14: a reference that starts with http: or https: is returned unchanged
\* as href, with empty title and synopsis and internal=false, and no
\* diagnostic is appended for it.
C14_Absolute ==
    \A w \in Started :
        LET c == Ctx(w)
        IN  \A i \in WebLinks(c) :
                LET info == ResolveLinkInfo(c.Errors, c.DecodingPath, GivenHref(c, i))
                IN  /\ info.href = GivenHref(c, i)
                    /\ info.title = <<>>
                    /\ info.synopsis = <<>>
                    /\ info.internal = FALSE
                    /\ info.errors = c.Errors
                    /\ getAttr(WrittenAt(c, i)[1].attrs, "href") = GivenHref(c, i)
                    /\ \A k \in 1..Len(c.Errors) :
                          c.Errors[k].url # GivenHref(c, i)
                    /\ (\A j \in CallbackStarts(c, "a") : j \in WebLinks(c))
                          => c.Errors = <<>>

\* an https reference has been resolved
C14_Witness ==
    \E w \in Returned :
        /\ conversions[w].fatal = "nil"
        /\ \E i \in WebLinks(Ctx(w)) : GivenHref(Ctx(w), i)[5] = "s"

\* what Convert returns for topic t when no other conversion is running
ConvertAlone(t) ==
    ConvertResult([NoConversion EXCEPT !.pc = "run", !.Topic = t,
                                       !.page = NewPage(t)],
                  RunAlone(ConvertContext(t)))

\* the conversions return the same
SameResult(cv, alone) ==
    /\ cv.page = alone.page
    /\ cv.errs = alone.errs
    /\ cv.fatal = alone.fatal

\* C15: in every interleaving of the conversions of two workers with Contexts
\* of their own, no step writes Index.Topics, BySlug or ByTopic, a step of
\* one conversion writes nothing of the other conversion or its Context, and
\* each Convert returns the page, diagnostics and fatal error it returns
\* when it runs alone.
C15_Isolation ==
    [][/\ topics' = topics
       /\ byslug' = byslug
       /\ bytopic' = bytopic
       /\ \E w \in Workers :
             \A v \in Workers \ {w} :
                 conversions'[v] = conversions[v] /\ contexts'[v] = contexts[v]
       /\ \A w \in Workers :
             conversions'[w].pc = "returned" =>
                 SameResult(conversions'[w], ConvertAlone(conversions[w].Topic))
      ]_vars

\* two conversions of different topics have returned, each having taken
\* steps while the other was running, one of them with a diagnostic
C15_Witness ==
    /\ Returned = Workers
    /\ \A w \in Workers : conversions[w].met # {}
    /\ conversions["w1"].Topic # conversions["w2"].Topic
    /\ \E w \in Workers : conversions[w].errs # <<>>

\* C16: ToSlug always clears scope; with a non-empty format and a non-empty
\* resolved href it clears format and sets download to the base name of the
\* href when the lower-cased extension is .pdf, .doc, .xml, .rtf, .zip or
\* .exe, and target=_blank otherwise, never both; with an empty resolved
\* href it leaves format and sets neither.
C16_ToSlug ==
    \A w \in Started :
        LET c == Ctx(w)
        IN  \A i \in CallbackStarts(c, "a") :
                LET given == c.toks[i].attrs
                    tag   == WrittenAt(c, i)[1]
                    href  == getAttr(tag.attrs, "href")
                IN  /\ Len(WrittenAt(c, i)) = 1
                    /\ tag.kind = "start"
                    /\ tag.name = "a"
                    /\ getAttr(tag.attrs, "scope") = <<>>
                    /\ (getAttr(given, "format") # <<>> /\ href # <<>>) =>
                          /\ getAttr(tag.attrs, "format") = <<>>
                          /\ IF ToLowerStr(Ext(href)) \in DownloadExts
                             THEN /\ getAttr(tag.attrs, "download") = Base(href)
                                  /\ getAttr(tag.attrs, "target") = <<>>
                             ELSE /\ getAttr(tag.attrs, "target") = Blank
                                  /\ getAttr(tag.attrs, "download") = <<>>
                    /\ href = <<>> =>
                          /\ getAttr(tag.attrs, "format") = getAttr(given, "format")
                          /\ getAttr(tag.attrs, "download") = <<>>
                          /\ getAttr(tag.attrs, "target") = <<>>
                    /\ c.toks = DocDownload =>
                          /\ getAttr(tag.attrs, "download") = <<"b",".","d","o","C">>
                          /\ getAttr(tag.attrs, "format") = <<>>
                    /\ c.toks = DocUpper =>
                          /\ href = <<"a","l","p","h","a">>
                          /\ getAttr(tag.attrs, "target") = <<"_","b","l","a","n","k">>
                          /\ getAttr(tag.attrs, "format") = <<>>
                    /\ (c.toks = DocMissing /\ i = 1) =>
                          /\ href = <<>>
                          /\ getAttr(tag.attrs, "format") = <<"d","i","t","a">>

\* ToSlug has emitted a link with a download attribute, for an href whose
\* extension is written with a capital
C16_Witness ==
    \E w \in Returned :
        \E i \in CallbackStarts(Ctx(w), "a") :
            /\ getAttr(WrittenAt(Ctx(w), i)[1].attrs, "download") # <<>>
            /\ Ext(GivenHref(Ctx(w), i)) \notin DownloadExts
            /\ getAttr(Ctx(w).toks[i].attrs, "scope") # <<>>

\* ToSlug has emitted a link whose href did not resolve and whose format stayed
C16_WitnessUnresolved ==
    \E w \in Returned :
        \E i \in CallbackStarts(Ctx(w), "a") :
            /\ getAttr(WrittenAt(Ctx(w), i)[1].attrs, "href") = <<>>
            /\ getAttr(WrittenAt(Ctx(w), i)[1].attrs, "format") # <<>>

\* the elements of the input of c that are open when c reads token n
OpenAt(c, n) == SeqSet(Opens(c.toks, n - 1))

\* the end tag of element i that c has read (0 if it has not)
CtxEndOf(c, i) ==
    LET J == {j \in (i + 1)..(c.pos - 1) :
                 /\ c.toks[j].kind = "end"
                 /\ i \in OpenAt(c, j)
                 /\ i \notin OpenAt(c, j + 1)}
    IN  IF J = {} THEN 0 ELSE CHOOSE j \in J : \A k \in J : j <= k

\* the images with placement "break" that are open when c reads token n
OpenBreaks(c, n) ==
    {i \in CallbackStarts(c, "img") \cap OpenAt(c, n) :
        getAttr(c.toks[i].attrs, "placement") = <<"b","r","e","a","k">>}

\* C17: InlineImage sets src to InlinedImageURL(href) and removes href and
\* placement from the image tag in every case; with placement "break" it
\* writes <p class="image"> before the image's start tag and </p> after its
\* end tag, and the </p> is written also when emitting the image and its
\* children returns an error; with any other placement no wrapper is written.
C17_InlineImage ==
    \A w \in Started :
        LET c == Ctx(w)
        IN  /\ \A i \in CallbackStarts(c, "img") :
                  LET given  == c.toks[i].attrs
                      break  == getAttr(given, "placement") = <<"b","r","e","a","k">>
                      W      == WrittenAt(c, i)
                      tag    == W[Len(W)]
                      j      == CtxEndOf(c, i)
                  IN  /\ Len(W) = IF break THEN 2 ELSE 1
                      /\ break =>
                            W[1] = [kind |-> "start", name |-> "p",
                                    attrs |-> <<[name |-> "class",
                                                 value |-> <<"i","m","a","g","e">>]>>]
                      /\ tag.kind = "start"
                      /\ tag.name = "img"
                      /\ getAttr(tag.attrs, "src")
                            = <<"d","a","t","a",":">> \o getAttr(given, "href")
                      /\ getAttr(tag.attrs, "href") = <<>>
                      /\ getAttr(tag.attrs, "placement") = <<>>
                      /\ getAttr(tag.attrs, "id") = getAttr(given, "id")
                      /\ j # 0 =>
                            WrittenAt(c, j)
                                = <<EndTok("img")>>
                                    \o (IF break THEN <<EndTok("p")>> ELSE <<>>)
            /\ c.state = "fatal" =>
                  WrittenAt(c, c.pos)
                      = [k \in 1..Cardinality(OpenBreaks(c, c.pos)) |-> EndTok("p")]
            /\ c.state \in {"ok", "fatal"} =>
                  Cardinality({k \in 1..Len(c.Output) :
                                  c.Output[k].tok = ImageParagraph})
                    = Cardinality({k \in 1..Len(c.Output) :
                                      /\ c.Output[k].tok = EndTok("p")
                                      /\ \/ c.Output[k].origin > Len(c.toks)
                                         \/ c.toks[c.Output[k].origin].name # "p"
                                         \/ c.Output[k].origin = c.pos})

\* the run failed inside an image with placement "break", and the </p> of
\* its paragraph was written
C17_Witness ==
    \E w \in Returned :
        /\ conversions[w].fatal = "syntax error"
        /\ OpenBreaks(Ctx(w), Ctx(w).pos) # {}
        /\ Ctx(w).Output[Len(Ctx(w).Output)].tok = EndTok("p")

\* an image with another placement has been emitted to the end
C17_WitnessInline ==
    \E w \in Returned :
        /\ conversions[w].fatal = "nil"
        /\ \E i \in CallbackStarts(Ctx(w), "img") :
              /\ getAttr(Ctx(w).toks[i].attrs, "placement") = <<"i","n","l","i","n","e">>
              /\ CtxEndOf(Ctx(w), i) # 0

-----------------------------------------------------------------------------
(* Properties of Slugify, ValidateSlug and titelize *)

\* the calls of op made so far
CallsOf(op) == {k \in 1..Len(calls) : calls[k].op = op}

\* C18: Slugify is idempotent: a call of Slugify on the result of a call of
\* Slugify returns its argument.
C18_Idempotent ==
    \A k \in CallsOf("Slugify") :
        (k > 1 /\ calls[k - 1].op = "Slugify") =>
            /\ calls[k].arg = calls[k - 1].res
            /\ calls[k].res = calls[k].arg

\* Slugify was called on a result of Slugify that has a dash and the name
\* of a symbol in it and differs from the string it was made from
C18_Witness ==
    /\ Len(calls) = 2
    /\ calls[1].op = "Slugify"
    /\ calls[2].op = "Slugify"
    /\ calls[1].arg # calls[1].res
    /\ \E i \in 1..Len(calls[1].arg) : HasRuneName(calls[1].arg[i])
    /\ \E i \in 1..Len(calls[1].res) : calls[1].res[i] = "-"
    /\ Len(calls[1].res) > 1

\* C19: ValidateSlug returns an error exactly when the slug is empty or
\* Slugify changes it, and returns nil for every result of Slugify.
C19_ValidateSlug ==
    \A k \in CallsOf("ValidateSlug") :
        /\ calls[k].res # "nil"
              <=> (calls[k].arg = <<>> \/ Slugify(calls[k].arg) # calls[k].arg)
        /\ (k > 1 /\ calls[k - 1].op = "Slugify") =>
              /\ calls[k].arg = calls[k - 1].res
              /\ calls[k].res = "nil"

\* ValidateSlug was called on the result of a Slugify that changed its string
C19_Witness ==
    /\ Len(calls) = 2
    /\ calls[1].op = "Slugify"
    /\ calls[1].arg # calls[1].res
    /\ calls[2].op = "ValidateSlug"
    /\ calls[2].res = "nil"

\* ValidateSlug refused a non-empty slug
C19_WitnessRefused ==
    \E k \in CallsOf("ValidateSlug") :
        /\ calls[k].arg # <<>>
        /\ calls[k].res = "slugification modified the slug"

\* s from position i on, each sep with at most one space on each side of it
\* replaced by word, every other character kept
RECURSIVE ReplaceEach(_, _, _, _)
ReplaceEach(s, i, sep, word) ==
    IF i > Len(s) THEN <<>>
    ELSE IF s[i] = " " /\ At(s, i + 1) = sep
    THEN word \o ReplaceEach(s, IF At(s, i + 2) = " " THEN i + 3 ELSE i + 2,
                             sep, word)
    ELSE IF s[i] = sep
    THEN word \o ReplaceEach(s, IF At(s, i + 1) = " " THEN i + 2 ELSE i + 1,
                             sep, word)
    ELSE <<s[i]>> \o ReplaceEach(s, i + 1, sep, word)

\* C20: titelize replaces each '/', with at most one space on each side of
\* it, by " or ", then each '&', with at most one space on each side of it,
\* by " and ", and leaves every other character unchanged.
C20_Titelize ==
    \A k \in CallsOf("titelize") :
        calls[k].res
            = ReplaceEach(ReplaceEach(calls[k].arg, 1, "/", <<" ","o","r"," ">>),
                          1, "&", <<" ","a","n","d"," ">>)

-----------------------------------------------------------------------------
(* Properties of ResolveLinkInfo *)

\* the calls of ResolveLinkInfo of c whose path part names a topic of the Index
Found(c) ==
    {k \in 1..Len(c.Resolved) :
        /\ HasPathPart(c.Resolved[k].url)
        /\ TargetKey(c.DecodingPath, c.Resolved[k].url) \in DOMAIN topics}

\* the topic call k of c found
FoundTopic(c, k) == topics[TargetKey(c.DecodingPath, c.Resolved[k].url)]

\* the selector of call k of c
SelectorOf(c, k) == SplitLink(c.Resolved[k].url).selector

\* what the title extraction of call k of c gave: title and error
Extraction(c, k) ==
    IF SelectorOf(c, k) = <<>> THEN [title |-> <<>>, err |-> "nil"]
    ELSE ExtractTitle(FoundTopic(c, k).Raw, SelectorOf(c, k))

\* C21 as stated: the topic's own Title becomes the title, and its short
\* description the synopsis, only when no title was extracted, the topic has
\* parsed content and no selector was given; with a selector and no title
\* extracted the title returned is empty.
C21_TitleOriginal ==
    \A w \in Started :
        \A k \in Found(Ctx(w)) :
            LET info     == Ctx(w).Resolved[k].info
                topic    == FoundTopic(Ctx(w), k)
                selector == SelectorOf(Ctx(w), k)
                title    == Extraction(Ctx(w), k).title
            IN  /\ title # <<>> => (info.title = title /\ info.synopsis = <<>>)
                /\ (title = <<>> /\ topic.Original /\ selector = <<>>) =>
                      /\ info.title = topic.Title
                      /\ info.synopsis = topic.ShortDesc
                /\ (title = <<>> /\ ~topic.Original) =>
                      (info.title = <<>> /\ info.synopsis = <<>>)
                /\ (title = <<>> /\ selector # <<>>) =>
                      (info.title = <<>> /\ info.synopsis = <<>>)

\* C21, amended: the topic's own Title becomes the title whenever no title
\* was extracted and the topic has parsed content, with or without a
\* selector; its short description becomes the synopsis only when moreover
\* no selector was given; with a selector and no title extracted the title
\* returned is the topic's Title when the topic has parsed content and
\* empty when it has none.
C21_Title ==
    \A w \in Started :
        \A k \in Found(Ctx(w)) :
            LET info     == Ctx(w).Resolved[k].info
                topic    == FoundTopic(Ctx(w), k)
                selector == SelectorOf(Ctx(w), k)
                title    == Extraction(Ctx(w), k).title
            IN  /\ title # <<>> => (info.title = title /\ info.synopsis = <<>>)
                /\ (title = <<>> /\ topic.Original /\ selector = <<>>) =>
                      /\ info.title = topic.Title
                      /\ info.synopsis = topic.ShortDesc
                /\ (title = <<>> /\ ~topic.Original) =>
                      (info.title = <<>> /\ info.synopsis = <<>>)
                /\ (title = <<>> /\ topic.Original /\ selector # <<>>) =>
                      (info.title = topic.Title /\ info.synopsis = <<>>)
                /\ (Ctx(w).DecodingPath = PathB
                      /\ Ctx(w).Resolved[k].url
                           = <<".",".","/","a",".","x","m","l","#","n","o","n","e">>) =>
                      info.title = <<"a","l","p","h","a">>

\* a reference with a selector that names no element of a parsed topic has
\* been resolved, and the title returned is the topic's Title
C21_Witness ==
    \E w \in Returned :
        \E k \in Found(Ctx(w)) :
            /\ SelectorOf(Ctx(w), k) # <<>>
            /\ Extraction(Ctx(w), k).title = <<>>
            /\ FoundTopic(Ctx(w), k).Original
            /\ Ctx(w).Resolved[k].info.title = <<"a","l","p","h","a">>

\* the start tags c has read that lie outside removed subtrees and whose
\* name after translation is out
TranslatedTo(c, out) ==
    {i \in 1..(c.pos - 1) :
        /\ c.toks[i].kind = "start"
        /\ ~CtxInRemoved(c, i)
        /\ (IF c.toks[i].name \in DOMAIN HTMLTranslate
            THEN HTMLTranslate[c.toks[i].name] ELSE c.toks[i].name) = out}

\* the calls of the callback registered under out for start tag i
CallsAt(c, i, out) ==
    {k \in 1..Len(c.Called) : c.Called[k] = [at |-> i, out |-> out]}

\* C22: the callback registered under an output name is called exactly once
\* for every element outside removed subtrees whose name after translation
\* is that name (xref, link and a reach "a", image and img reach "img") and
\* for no other token; at the start tag exactly one start tag of that name
\* is written, the one the callback emits, the children are emitted, and at
\* the end tag one end tag of that name is written.
C22_Callback ==
    \A w \in Started :
        LET c == Ctx(w)
        IN  /\ \A out \in {"a", "img"} :
                  \A i \in TranslatedTo(c, out) :
                      /\ Cardinality(CallsAt(c, i, out)) = 1
                      /\ c.toks[i].name
                            \in {"xref", "link", "a", "image", "img"}
                      /\ Cardinality({k \in 1..Len(WrittenAt(c, i)) :
                                         /\ WrittenAt(c, i)[k].kind = "start"
                                         /\ WrittenAt(c, i)[k].name = out}) = 1
                      /\ getAttr(WrittenAt(c, i)[Len(WrittenAt(c, i))].attrs,
                                 "scope") = <<>>
                      /\ CtxEndOf(c, i) # 0 =>
                            Cardinality({k \in 1..Len(WrittenAt(c, CtxEndOf(c, i))) :
                                            WrittenAt(c, CtxEndOf(c, i))[k]
                                                = EndTok(out)}) = 1
                      /\ \A j \in (i + 1)..(c.pos - 1) :
                            (c.toks[j].kind = "text" /\ ~CtxInRemoved(c, j)) =>
                                WrittenAt(c, j) = <<c.toks[j]>>
            /\ \A k \in 1..Len(c.Called) :
                  /\ c.Called[k].out \in {"a", "img"}
                  /\ c.Called[k].at \in TranslatedTo(c, c.Called[k].out)
            /\ \A i \in 1..(c.pos - 1) :
                  CtxInRemoved(c, i) => WrittenAt(c, i) = <<>>

\* the callbacks have been called for a link inside an unwrapped element,
\* for a literal a and for the img inside it, and not for the a inside a
\* removed element
C22_Witness ==
    \E w \in Returned :
        /\ Ctx(w).toks = DocCallbacks
        /\ conversions[w].fatal = "nil"
        /\ Len(Ctx(w).Called) = 3
        /\ Ctx(w).Called[1] = [at |-> 2, out |-> "a"]
        /\ Ctx(w).Called[3] = [at |-> 7, out |-> "img"]

\* the href of the start tag ToSlug emitted for call k of c
EmittedHref(c, k) ==
    getAttr(WrittenAt(c, c.Resolved[k].at)[1].attrs, "href")

\* C23: when a selector is present and no title can be extracted from the
\* raw content of the topic found, exactly one diagnostic is appended and
\* the resolution goes on: href and internal are what they are when the
\* extraction succeeds, the identifier with '#' and the selector and true
\* for a topic with an identifier, empty and false for one without; a call
\* whose extraction succeeds, or that has no selector, appends nothing.
C23_ExtractFails ==
    \A w \in Started :
        LET c == Ctx(w)
        IN  \A k \in Found(c) :
                LET r        == c.Resolved[k]
                    key      == TargetKey(c.DecodingPath, r.url)
                    selector == SelectorOf(c, k)
                    failed   == selector # <<>> /\ Extraction(c, k).err # "nil"
                IN  /\ failed =>
                          /\ Len(r.info.errors) = Len(r.before) + 1
                          /\ SubSeq(r.info.errors, 1, Len(r.before)) = r.before
                          /\ r.info.errors[Len(r.info.errors)].kind
                                = "unable to extract title"
                    /\ ~failed => r.info.errors = r.before
                    /\ r.info.internal = (key \in DOMAIN bytopic)
                    /\ r.info.href
                          = IF key \notin DOMAIN bytopic THEN <<>>
                            ELSE IF selector = <<>> THEN bytopic[key]
                            ELSE bytopic[key] \o <<"#">> \o selector
                    /\ EmittedHref(c, k) = r.info.href
                    /\ (c.DecodingPath = PathB
                          /\ r.url = <<".",".","/","a",".","x","m","l","#","n","o","n","e">>) =>
                          /\ failed
                          /\ r.info.href = <<"a","l","p","h","a","#","n","o","n","e">>
                          /\ r.info.internal

\* a reference whose selector names no element of a topic with an
\* identifier has been resolved: it is internal and left one diagnostic,
\* which Convert returned
C23_Witness ==
    \E w \in Returned :
        \E k \in Found(Ctx(w)) :
            /\ SelectorOf(Ctx(w), k) # <<>>
            /\ Extraction(Ctx(w), k).err # "nil"
            /\ Ctx(w).Resolved[k].info.internal
            /\ Len(Ctx(w).Resolved[k].info.errors) = 1
            /\ conversions[w].errs # <<>>
            /\ conversions[w].fatal = "nil"

\* the calls of ResolveLinkInfo of c that found a topic without identifier
Unmapped(c) ==
    {k \in Found(c) :
        TargetKey(c.DecodingPath, c.Resolved[k].url) \notin DOMAIN bytopic}

\* C24: when the topic found has no identifier in ByTopic, ResolveLinkInfo
\* returns internal=false and an empty href together with the title and the
\* synopsis it determined (d.xml from sub/b.xml: "Alpha" and "second";
\* d.xml#intro: "Intro" and no synopsis), and ToSlug emits the start tag
\* without href attribute, with the synopsis as title when it had none.
C24_Unmapped ==
    \A w \in Started :
        LET c == Ctx(w)
        IN  \A k \in Unmapped(c) :
                LET r     == c.Resolved[k]
                    topic == FoundTopic(c, k)
                    title == Extraction(c, k).title
                    given == c.toks[r.at].attrs
                    tag   == WrittenAt(c, r.at)[1]
                IN  /\ r.info.internal = FALSE
                    /\ r.info.href = <<>>
                    /\ r.info.title
                          = IF title # <<>> THEN title
                            ELSE IF topic.Original THEN topic.Title ELSE <<>>
                    /\ r.info.synopsis
                          = IF title = <<>> /\ topic.Original
                               /\ SelectorOf(c, k) = <<>>
                            THEN topic.ShortDesc ELSE <<>>
                    /\ Len(WrittenAt(c, r.at)) = 1
                    /\ tag.name = "a"
                    /\ \A j \in 1..Len(tag.attrs) : tag.attrs[j].name # "href"
                    /\ getAttr(tag.attrs, "title")
                          = IF getAttr(given, "title") # <<>>
                            THEN getAttr(given, "title") ELSE r.info.synopsis
                    /\ (c.DecodingPath = PathB /\ r.url = <<"d",".","x","m","l">>) =>
                          /\ r.info.title = <<"A","l","p","h","a">>
                          /\ r.info.synopsis = <<"s","e","c","o","n","d">>
                          /\ tag.attrs = <<Attr("title", <<"s","e","c","o","n","d">>)>>
                    /\ (c.DecodingPath = PathB
                          /\ r.url = <<"d",".","x","m","l","#","i","n","t","r","o">>) =>
                          /\ r.info.title = <<"I","n","t","r","o">>
                          /\ r.info.synopsis = <<>>
                          /\ tag.attrs = <<Attr("title", <<"t">>)>>

\* the reference d.xml of sub/b.xml, to a parsed topic without identifier,
\* has been resolved with a title and a synopsis and emitted without href
C24_Witness ==
    \E w \in Returned :
        \E k \in Unmapped(Ctx(w)) :
            /\ Ctx(w).Resolved[k].url = <<"d",".","x","m","l">>
            /\ Ctx(w).Resolved[k].info.title # <<>>
            /\ Ctx(w).Resolved[k].info.synopsis # <<>>
            /\ EmittedHref(Ctx(w), k) = <<>>
            /\ conversions[w].errs = <<>>

\* C25: ResolveLinkInfo returns internal=true exactly for a reference with
\* an empty path part and for a reference whose path part names a topic of
\* the Index that has an identifier in ByTopic; for the empty path part the
\* href is '#' and the selector, title and synopsis are empty and no
\* diagnostic is appended; whenever internal=true the href is not empty.
C25_Internal ==
    \A w \in Started :
        LET c == Ctx(w)
        IN  \A k \in 1..Len(c.Resolved) :
                LET r     == c.Resolved[k]
                    web   == \/ HasPrefix(r.url, <<"h","t","t","p",":">>)
                             \/ HasPrefix(r.url, <<"h","t","t","p","s",":">>)
                    same  == ~web /\ r.url[1] = "#"
                    named == /\ k \in Found(c)
                             /\ TargetKey(c.DecodingPath, r.url) \in DOMAIN bytopic
                IN  /\ r.info.internal <=> (same \/ named)
                    /\ same =>
                          /\ r.info.href = <<"#">> \o SubSeq(r.url, 2, Len(r.url))
                          /\ r.info.title = <<>>
                          /\ r.info.synopsis = <<>>
                          /\ r.info.errors = r.before
                    /\ r.info.internal => r.info.href # <<>>

\* the same-topic reference #top has been resolved, after it a reference
\* that is internal by its identifier and one that is not internal
C25_Witness ==
    \E w \in Returned :
        /\ Len(Ctx(w).Resolved) = 3
        /\ Ctx(w).Resolved[1].url = <<"#","t","o","p">>
        /\ Ctx(w).Resolved[1].info.internal
        /\ Ctx(w).Resolved[2].info.internal
        /\ ~Ctx(w).Resolved[3].info.internal

-----------------------------------------------------------------------------
(* Properties of the promotion pass and of TopicsSorted *)

\* the visits of the promotion pass that found the short-title identifier
\* of a topic with a shorter, non-empty ShortTitle taken
Refused ==
    {i \in 1..Len(visits) :
        /\ visits[i].taken
        /\ visits[i].short # <<>>
        /\ Len(visits[i].short) < Len(visits[i].title)}

\* C26: a mapped topic whose short-title identifier is a key of BySlug when
\* the promotion pass visits it keeps its Title, its ShortTitle and its
\* identifier, during the rest of the pass and in the returned Mapping, and
\* the promotion pass appends no error: the errors are those of the topics
\* the first pass excluded.
C26_Kept ==
    pc \in {"promote", "done"} =>
        /\ \A i \in 1..Len(visits) :
              visits[i].taken =>
                  /\ topics[visits[i].file]
                        = [Title |-> visits[i].title, ShortTitle |-> visits[i].short]
                  /\ visits[i].file \in DOMAIN bytopic
                  /\ bytopic[visits[i].file] = visits[i].prev
                  /\ visits[i].prev \in DOMAIN byslug
                  /\ byslug[visits[i].prev] = visits[i].file
        /\ Len(errors) = Cardinality(DOMAIN topics \ DOMAIN bytopic)
        /\ \A k \in 1..Len(errors) : errors[k].file \notin DOMAIN bytopic

\* a Mapping is returned in which a topic with a shorter ShortTitle was not
\* promoted because another topic had taken the identifier before, while a
\* topic of the corpus was excluded with an error
C26_Witness ==
    /\ pc = "done"
    /\ \E i \in Refused :
          /\ Slugify(visits[i].short) \in DOMAIN byslug
          /\ byslug[Slugify(visits[i].short)] # visits[i].file
          /\ topics[visits[i].file].ShortTitle # <<>>
    /\ Len(errors) = 1

\* the first visit the promotion pass paid to topic f
FirstVisit(f) ==
    visits[CHOOSE i \in 1..Len(visits) :
               /\ visits[i].file = f
               /\ \A j \in 1..(i - 1) : visits[j].file # f]

\* the Mapping as the first pass left it, read from the first visits
PrimaryByTopic == [f \in DOMAIN bytopic |-> FirstVisit(f).prev]

PrimaryBySlug ==
    [slug \in Range(PrimaryByTopic) |->
        CHOOSE f \in DOMAIN bytopic : PrimaryByTopic[f] = slug]

PrimaryTopics ==
    [f \in DOMAIN bytopic |->
        [Title |-> FirstVisit(f).title, ShortTitle |-> FirstVisit(f).short]]

\* the maps the promotion pass leaves when it visits the topics in order seq
RECURSIVE PromoteInOrder(_, _, _)
PromoteInOrder(seq, bs, bt) ==
    IF seq = <<>> THEN [byslug |-> bs, bytopic |-> bt]
    ELSE LET f     == Head(seq)
             topic == PrimaryTopics[f]
             slug  == Slugify(topic.ShortTitle)
         IN  IF SkipsPromotion(bs, topic)
             THEN PromoteInOrder(Tail(seq), bs, bt)
             ELSE PromoteInOrder(Tail(seq),
                                 PromoteBySlug(bs, bt[f], slug, f),
                                 Put(bt, f, slug))

\* C27: for the Mapping the first pass left, every visiting order of the
\* promotion pass gives the BySlug and ByTopic that are returned, and an
\* identifier a promotion has freed is not a key of the returned BySlug.
C27_OrderIndependent ==
    pc = "done" =>
        /\ \A seq \in Orders(DOMAIN bytopic) :
              PromoteInOrder(seq, PrimaryBySlug, PrimaryByTopic)
                  = [byslug |-> byslug, bytopic |-> bytopic]
        /\ \A i \in 1..Len(visits) :
              (Eligible(visits[i]) /\ visits[i].prev # Slugify(visits[i].short)) =>
                  visits[i].prev \notin DOMAIN byslug

\* the place of topic f in seq
PosIn(seq, f) == CHOOSE i \in 1..Len(seq) : seq[i] = f

\* C28: TopicsSorted returns every topic of Mapping.Topics exactly once,
\* the topics excluded from BySlug and ByTopic among them, in non-decreasing
\* Filename order, and changes neither BySlug, ByTopic nor a topic; of two
\* clashing topics the one the first pass visited first is registered,
\* whatever their Filenames.
C28_TopicsSorted ==
    [][/\ sorted' # sorted =>
             /\ topics' = topics
             /\ byslug' = byslug
             /\ bytopic' = bytopic
             /\ Len(sorted'.r) = Cardinality(DOMAIN topics)
             /\ {sorted'.r[i] : i \in 1..Len(sorted'.r)} = DOMAIN topics
             /\ \A i, j \in 1..Len(sorted'.r) :
                   i < j => FilePos(sorted'.r[i]) <= FilePos(sorted'.r[j])
       /\ pc' = "done" =>
             \A k \in 1..Len(errors') :
                 errors'[k].kind = "clashing title" =>
                     /\ errors'[k].other \in DOMAIN bytopic'
                     /\ errors'[k].file \notin DOMAIN bytopic'
                     /\ PosIn(order', errors'[k].other)
                           < PosIn(order', errors'[k].file)
      ]_vars

\* TopicsSorted has returned three topics, among them one that clashed with
\* a topic of a greater Filename and is in neither map
C28_Witness ==
    /\ sorted.called
    /\ Len(sorted.r) = 3
    /\ \E k \in 1..Len(errors) :
          /\ errors[k].kind = "clashing title"
          /\ FilePos(errors[k].file) < FilePos(errors[k].other)
          /\ errors[k].file \notin DOMAIN bytopic
          /\ \E i \in 1..Len(sorted.r) : sorted.r[i] = errors[k].file

-----------------------------------------------------------------------------
(* Properties of Pages *)

\* the calls that returned nil
Succeeded(log) == {k \in DOMAIN log : log[k].result = "nil"}

JournalAction(op) ==
    CASE op = "Create" -> "create"
      [] op = "Delete" -> "delete"
      [] OTHER -> "overwrite"

\* C30: the page journal is complete for the successful mutations: every
\* Create, Overwrite and Delete that changes the Pages table appends one
\* PageJournal record with the matching action, and a call that fails or
\* changes no row appends no record for that action
C30_JournalComplete ==
    \A a \in {"create", "overwrite", "delete"} :
        Cardinality({k \in DOMAIN journal : journal[k].Action = a})
            = Cardinality({k \in DOMAIN oplog :
                    oplog[k].changed /\ JournalAction(oplog[k].op) = a})

====
